---------------------------- MODULE Spec2Model ----------------------------
(***************************************************************************)
(* A model of the crawl engine of granttremel/flashcard:                   *)
(*   - PaperDatabase (flashcard/knowledge_database.py): the papers and     *)
(*     citations tables and their batch inserts;                           *)
(*   - Crawler (flashcard/crawler.py): seeding, the crawl loop, the        *)
(*     pending buffers, checkpoints;                                       *)
(*   - CiteManager (flashcard/citations.py): the rate-limited client;      *)
(*   - calculate_priority and the heap of both crawlers.                   *)
(* Each part has its own specification over the shared variables.          *)
(***************************************************************************)
EXTENDS Integers, Sequences, FiniteSets, TLC

VARIABLES
    papers,               \* the papers table: a sequence of rows, row id = position
    citations,            \* the citations table: a sequence of rows
    lastCall,             \* the last Store call: its name and argument
    cm,                   \* the CiteManager: its counters, the clock, its calls
    pc,                   \* where the Crawler is: no object, idle, in the loop, ...
    priority_queue,       \* Crawler.priority_queue: the heap of (priority, paper_id)
    processed_paper_ids,  \* Crawler.processed_paper_ids
    paper_references,     \* Crawler.paper_references
    pending_papers,       \* Crawler.pending_papers
    pending_citations,    \* Crawler.pending_citations
    stats,                \* Crawler.stats
    paperObj,             \* nciting and ncited of the Paper objects
    state_file,           \* the checkpoint file on disk
    hist                  \* what the run has done so far (for the claims)

storeVars == <<papers, citations, lastCall>>
crawlVars == <<pc, priority_queue, processed_paper_ids, paper_references,
               pending_papers, pending_citations, stats, paperObj, state_file, hist>>
crawlVarsButHist == <<pc, priority_queue, processed_paper_ids, paper_references,
                      pending_papers, pending_citations, stats, paperObj, state_file>>
\* what a specification of the Store alone leaves as it is
unusedVars == <<cm, priority_queue, processed_paper_ids, paper_references,
                pending_papers, pending_citations, stats, paperObj, state_file>>
vars == <<papers, citations, lastCall, cm, pc, priority_queue,
          processed_paper_ids, paper_references, pending_papers,
          pending_citations, stats, paperObj, state_file, hist>>

-----------------------------------------------------------------------------
(* Bounds of the model *)

MaxRows == 2       \* rows of the papers table
MaxBatch == 2      \* records in one batch
MaxOci == 2        \* distinct relation identifiers

-----------------------------------------------------------------------------
(* The Store: PaperDatabase *)

NULL == 0

\* the identifier columns, in the order _get_paper_id_by_identifier_fast tries them
IdOrder == <<"doi", "pmid", "openalex", "omid", "isbn", "arxiv">>

IdTypes == {IdOrder[i] : i \in 1..Len(IdOrder)}

\* the identifier columns that carry a UNIQUE index
UniqueCols == {"doi", "pmid", "openalex"}

\* a paper_data dictionary: the identifiers given (a missing key is NULL) and
\* the defaults of the other columns
IdOf(ids, t) == IF t \in DOMAIN ids THEN ids[t] ELSE NULL

PaperData(ids) ==
    [doi |-> IdOf(ids, "doi"), pmid |-> IdOf(ids, "pmid"),
     openalex |-> IdOf(ids, "openalex"), omid |-> IdOf(ids, "omid"),
     isbn |-> IdOf(ids, "isbn"), arxiv |-> IdOf(ids, "arxiv"),
     nciting |-> 0, ncited |-> 0, done |-> FALSE]

NoIds == PaperData(<<>>)

\* dict.get(key, default)
DictGet(rec, k, default) == IF k \in DOMAIN rec THEN rec[k] ELSE default

\* paper_data.get('title', ''): the empty title of a record that carries none
\* (titles are numbers; NULL is no title at all)
NoTitle == -1

\* the row INSERT INTO papers writes for a paper_data dictionary
NewRow(rec) ==
    [doi |-> rec.doi, pmid |-> rec.pmid, openalex |-> rec.openalex,
     omid |-> rec.omid, isbn |-> rec.isbn, arxiv |-> rec.arxiv,
     nciting |-> rec.nciting, ncited |-> rec.ncited, done |-> rec.done,
     strength |-> DictGet(rec, "strength", 0),
     title |-> DictGet(rec, "title", NoTitle),
     crossref_fetched |-> DictGet(rec, "crossref_fetched", FALSE)]

\* sqlite3.IntegrityError on INSERT INTO papers: a UNIQUE index is violated
IntegrityError(rows, rec) ==
    \E i \in 1..Len(rows) : \E c \in UniqueCols :
        rec[c] # NULL /\ rows[i][c] = rec[c]

\* SELECT id FROM papers WHERE <id_type> = ?  (fetchone: the first row)
SelectId(rows, t, v) ==
    LET hits == {i \in 1..Len(rows) : rows[i][t] = v}
    IN IF hits = {} THEN NULL ELSE CHOOSE i \in hits : \A j \in hits : i <= j

RECURSIVE LookupFrom(_, _, _)
LookupFrom(rows, rec, k) ==
    IF k > Len(IdOrder) THEN NULL
    ELSE LET t == IdOrder[k]
             r == IF rec[t] # NULL THEN SelectId(rows, t, rec[t]) ELSE NULL
         IN IF r # NULL THEN r ELSE LookupFrom(rows, rec, k + 1)

_get_paper_id_by_identifier_fast(rows, rec) == LookupFrom(rows, rec, 1)

get_paper_id_by_identifier(rows, rec) == _get_paper_id_by_identifier_fast(rows, rec)

\* one iteration of the loop of insert_paper_batch
InsertOnePaper(st, rec) ==
    IF IntegrityError(st.rows, rec)
    THEN [rows |-> st.rows,
          results |-> Append(st.results, _get_paper_id_by_identifier_fast(st.rows, rec))]
    ELSE [rows |-> Append(st.rows, NewRow(rec)),
          results |-> Append(st.results, Len(st.rows) + 1)]

RECURSIVE InsertPapersFrom(_, _, _)
InsertPapersFrom(st, batch, k) ==
    IF k > Len(batch) THEN st
    ELSE InsertPapersFrom(InsertOnePaper(st, batch[k]), batch, k + 1)

\* insert_paper_batch: BEGIN, the loop, COMMIT; returns the table and the ids
insert_paper_batch(rows, batch) ==
    IF batch = <<>> THEN [rows |-> rows, results |-> <<>>]
    ELSE InsertPapersFrom([rows |-> rows, results |-> <<>>], batch, 1)

\* mutant: the citations table without the UNIQUE constraint on oci
CitationIntegrityError_NoUnique(crows, rec) == FALSE

\* sqlite3.IntegrityError on INSERT INTO citations: oci is UNIQUE NOT NULL
CitationIntegrityError(crows, rec) ==
    \E i \in 1..Len(crows) : crows[i].oci = rec.oci

\* one iteration of the loop of insert_citations_batch
InsertOneCitation(st, rec) ==
    IF CitationIntegrityError(st.rows, rec)
    THEN [rows |-> st.rows, results |-> Append(st.results, NULL)]
    ELSE [rows |-> Append(st.rows, rec),
          results |-> Append(st.results, Len(st.rows) + 1)]

RECURSIVE InsertCitationsFrom(_, _, _)
InsertCitationsFrom(st, batch, k) ==
    IF k > Len(batch) THEN st
    ELSE InsertCitationsFrom(InsertOneCitation(st, batch[k]), batch, k + 1)

\* insert_citations_batch: BEGIN, the loop, COMMIT
insert_citations_batch(crows, batch) ==
    IF batch = <<>> THEN [rows |-> crows, results |-> <<>>]
    ELSE InsertCitationsFrom([rows |-> crows, results |-> <<>>], batch, 1)

\* get_statistics()['total_citations']: SELECT COUNT(*) FROM citations
total_citations(crows) == Len(crows)

-----------------------------------------------------------------------------
(* Inputs of the Store specifications *)

\* paper_data dictionaries with at most two identifiers
PaperRecords ==
    {NoIds, PaperData("doi" :> 2), PaperData("doi" :> 1 @@ "pmid" :> 1)}
    \cup {PaperData(t :> 1) : t \in IdTypes}

SeqsUpTo(S, n) == UNION {[1..k -> S] : k \in 0..n}

PaperBatches == SeqsUpTo(PaperRecords, MaxBatch)

\* (citing_paper_id, cited_paper_id) pairs a relation record may carry
EndPoints == {<<1, 2>>, <<2, 1>>}

CitationRecords ==
    {[oci |-> o, citing_paper_id |-> e[1], cited_paper_id |-> e[2]] :
        o \in 1..MaxOci, e \in EndPoints}

CitationBatches == SeqsUpTo(CitationRecords, MaxBatch)

\* CiteManager.__init__: nrequests = 0, request_times = []; the clock at 0 and
\* no call made
NewCiteManager == [now |-> 0, nrequests |-> 0, request_times |-> <<>>, calls |-> <<>>]

NoCall == [op |-> "none", arg |-> <<>>]

-----------------------------------------------------------------------------
(* The Store specifications *)

StoreInit ==
    /\ papers = <<>>
    /\ citations = <<>>
    /\ lastCall = NoCall
    /\ cm = NewCiteManager
    /\ pc = "none"
    /\ priority_queue = <<>>
    /\ processed_paper_ids = {}
    /\ paper_references = <<>>
    /\ pending_papers = <<>>
    /\ pending_citations = <<>>
    /\ stats = <<>>
    /\ paperObj = <<>>
    /\ state_file = <<>>
    /\ hist = <<>>

InsertPaperBatch ==
    \E batch \in PaperBatches :
        LET out == insert_paper_batch(papers, batch) IN
        /\ Len(out.rows) <= MaxRows
        /\ papers' = out.rows
        /\ lastCall' = [op |-> "insert_paper_batch", arg |-> batch]
        /\ UNCHANGED <<citations, cm, crawlVars>>

InsertCitationsBatch ==
    \E batch \in CitationBatches :
        LET out == insert_citations_batch(citations, batch) IN
        /\ citations' = out.rows
        /\ lastCall' = [op |-> "insert_citations_batch", arg |-> batch]
        /\ UNCHANGED <<papers, cm, crawlVars>>

StoreNext == InsertPaperBatch

SpecStore == StoreInit /\ [][StoreNext]_vars

CitesNext == InsertCitationsBatch

SpecCites == StoreInit /\ [][CitesNext]_vars

-----------------------------------------------------------------------------
(* Batches with records that fail *)

MaxTitle == 1      \* distinct titles a metadata update may carry

\* how the processing of one record of a batch ends:
\*   "none"    the statement runs (a row is written, or IntegrityError);
\*   "record"  the statement raises an error other than IntegrityError inside
\*             the per-record try: a value sqlite3 cannot bind, a timestamp
\*             out of the platform's range;
\*   "item"    the for statement itself raises on the record, outside the
\*             per-record try: a tuple of the wrong length
Faults == {"none", "record", "item"}

\* [None] * len(batch)
NoneList(n) == [i \in 1..n |-> NULL]

\* one iteration of insert_paper_batch: `except Exception` appends None and
\* the loop goes on
InsertOnePaperOrFail(st, item) ==
    IF item.fault = "record"
    THEN [rows |-> st.rows, results |-> Append(st.results, NULL)]
    ELSE InsertOnePaper(st, item.rec)

RECURSIVE InsertFaultyPapersFrom(_, _, _)
InsertFaultyPapersFrom(st, batch, k) ==
    IF k > Len(batch) THEN st
    ELSE InsertFaultyPapersFrom(InsertOnePaperOrFail(st, batch[k]), batch, k + 1)

\* insert_paper_batch with failures: BEGIN, the loop, COMMIT; when COMMIT
\* raises, the outer handler rolls back and returns [None] * n
insert_paper_batch_or_fail(rows, batch, commit_raises) ==
    IF batch = <<>> THEN [rows |-> rows, results |-> <<>>]
    ELSE IF commit_raises
         THEN [rows |-> rows, results |-> NoneList(Len(batch))]
         ELSE InsertFaultyPapersFrom([rows |-> rows, results |-> <<>>], batch, 1)

\* one iteration of insert_citations_batch
InsertOneCitationOrFail(st, item) ==
    IF item.fault = "record"
    THEN [rows |-> st.rows, results |-> Append(st.results, NULL)]
    ELSE InsertOneCitation(st, item.rec)

RECURSIVE InsertFaultyCitationsFrom(_, _, _)
InsertFaultyCitationsFrom(st, batch, k) ==
    IF k > Len(batch) THEN st
    ELSE InsertFaultyCitationsFrom(InsertOneCitationOrFail(st, batch[k]), batch, k + 1)

\* does the loop or the COMMIT raise outside the per-record try
Aborts(batch, commit_raises) ==
    commit_raises \/ \E k \in 1..Len(batch) : batch[k].fault = "item"

\* insert_citations_batch with failures
insert_citations_batch_or_fail(crows, batch, commit_raises) ==
    IF batch = <<>> THEN [rows |-> crows, results |-> <<>>]
    ELSE IF Aborts(batch, commit_raises)
         THEN [rows |-> crows, results |-> NoneList(Len(batch))]
         ELSE InsertFaultyCitationsFrom([rows |-> crows, results |-> <<>>], batch, 1)

\* UPDATE papers SET title = COALESCE(?, title), crossref_fetched = TRUE
\* WHERE id = ?
UpdateRow(rows, id, title) ==
    IF id \in 1..Len(rows)
    THEN [rows EXCEPT ![id].title = IF title = NULL THEN @ ELSE title,
                      ![id].crossref_fetched = TRUE]
    ELSE rows

\* one iteration of update_paper_metadata_batch: `except Exception` prints and
\* the loop goes on
UpdateOneOrFail(st, item) ==
    IF item.fault = "record" THEN st
    ELSE [rows |-> UpdateRow(st.rows, item.paper_id, item.title),
          count |-> IF item.paper_id \in 1..Len(st.rows)
                    THEN st.count + 1 ELSE st.count]

RECURSIVE UpdateFrom(_, _, _)
UpdateFrom(st, batch, k) ==
    IF k > Len(batch) THEN st
    ELSE UpdateFrom(UpdateOneOrFail(st, batch[k]), batch, k + 1)

\* update_paper_metadata_batch: BEGIN, the loop, COMMIT; the outer handler
\* rolls back and returns 0
update_paper_metadata_batch(rows, batch, commit_raises) ==
    IF batch = <<>> THEN [rows |-> rows, count |-> 0]
    ELSE IF Aborts(batch, commit_raises)
         THEN [rows |-> rows, count |-> 0]
         ELSE UpdateFrom([rows |-> rows, count |-> 0], batch, 1)

\* the inputs: paper records identified by DOI or by nothing
FaultyPaperItems ==
    {[rec |-> r, fault |-> f] :
        r \in {NoIds, PaperData("doi" :> 1), PaperData("doi" :> 2)},
        f \in {"none", "record"}}

FaultyCitationItems ==
    {[rec |-> [oci |-> o, citing_paper_id |-> 1, cited_paper_id |-> 2], fault |-> f] :
        o \in 1..MaxOci, f \in Faults}

Titles == {NULL} \cup 1..MaxTitle

UpdateItems ==
    {[paper_id |-> i, title |-> t, fault |-> f] :
        i \in 1..MaxRows, t \in Titles, f \in Faults}

\* does a record of the batch fail with an error other than a duplicate
FailsPartWay(batch) ==
    \E k \in 1..Len(batch) : batch[k].fault # "none"

BatchInit ==
    /\ papers = <<>>
    /\ citations = <<>>
    /\ lastCall = NoCall
    /\ cm = NewCiteManager
    /\ pc = "none"
    /\ priority_queue = <<>>
    /\ processed_paper_ids = {}
    /\ paper_references = <<>>
    /\ pending_papers = <<>>
    /\ pending_citations = <<>>
    /\ stats = <<>>
    /\ paperObj = <<>>
    /\ state_file = <<>>
    /\ hist = [papers |-> <<>>, citations |-> <<>>, failed |-> FALSE, raised |-> FALSE]

\* the ghost record: the tables before the call, whether a record of the batch
\* failed, and whether the outer handler ran
Before(batch, commit_raises) ==
    [papers |-> papers, citations |-> citations,
     failed |-> FailsPartWay(batch) \/ commit_raises,
     raised |-> Aborts(batch, commit_raises)]

PaperBatchCall ==
    \E batch \in SeqsUpTo(FaultyPaperItems, MaxBatch) \ {<<>>} :
    \E commit_raises \in BOOLEAN :
        LET out == insert_paper_batch_or_fail(papers, batch, commit_raises) IN
        /\ Len(out.rows) <= MaxRows
        /\ papers' = out.rows
        /\ lastCall' = [op |-> "insert_paper_batch", arg |-> <<>>]
        /\ hist' = Before(batch, commit_raises)
        /\ UNCHANGED <<citations, cm, crawlVarsButHist>>

CitationBatchCall ==
    \E batch \in SeqsUpTo(FaultyCitationItems, MaxBatch) \ {<<>>} :
    \E commit_raises \in BOOLEAN :
        LET out == insert_citations_batch_or_fail(citations, batch, commit_raises) IN
        /\ citations' = out.rows
        /\ lastCall' = [op |-> "insert_citations_batch", arg |-> <<>>]
        /\ hist' = Before(batch, commit_raises)
        /\ UNCHANGED <<papers, cm, crawlVarsButHist>>

MetadataBatchCall ==
    \E batch \in SeqsUpTo(UpdateItems, MaxBatch) \ {<<>>} :
    \E commit_raises \in BOOLEAN :
        LET out == update_paper_metadata_batch(papers, batch, commit_raises) IN
        /\ papers' = out.rows
        /\ lastCall' = [op |-> "update_paper_metadata_batch", arg |-> <<>>]
        /\ hist' = Before(batch, commit_raises)
        /\ UNCHANGED <<citations, cm, crawlVarsButHist>>

BatchNext == PaperBatchCall \/ CitationBatchCall \/ MetadataBatchCall

SpecBatch == BatchInit /\ [][BatchNext]_vars

-----------------------------------------------------------------------------
(* A process that ends in the middle of a batch write *)

MaxCrashes == 2      \* times the process ends in a behaviour
MaxCrashRows == 3    \* rows of a table

\* mutant: COMMIT writes nothing to the database file
commit_transaction_Skipped(disk, view, active) == disk

\* PaperDatabase.commit_transaction: the rows written since BEGIN TRANSACTION
\* become the content of the database file
commit_transaction(disk, view, active) == IF active THEN view ELSE disk

\* PaperDatabase.close_connection, which __del__ calls: an active transaction
\* is committed before the connection is closed
close_connection(disk, view, active) == commit_transaction(disk, view, active)

\* what the database file holds after the process has ended.  A killed
\* process runs no finalizer: the file keeps what was committed (the
\* write-ahead log ignores frames without a commit record).  An interpreter
\* that exits runs __del__.
AfterExit(disk, view, active, finalized) ==
    IF finalized THEN close_connection(disk, view, active) ELSE disk

\* the call in flight: its batch, the record the loop is at, the table as the
\* connection sees it inside the transaction
InFlight(op, batch, rows) ==
    [op |-> op, arg |-> batch, k |-> 1, rows |-> rows, results |-> <<>>]

CrashPaperRecords == {NoIds, PaperData("doi" :> 1), PaperData("doi" :> 2)}

CrashCitationRecords ==
    {[oci |-> o, citing_paper_id |-> 1, cited_paper_id |-> 2] : o \in 1..MaxOci}

CrashInit ==
    /\ papers = <<>>
    /\ citations = <<>>
    /\ lastCall = NoCall
    /\ cm = NewCiteManager
    /\ pc = "idle"
    /\ priority_queue = <<>>
    /\ processed_paper_ids = {}
    /\ paper_references = <<>>
    /\ pending_papers = <<>>
    /\ pending_citations = <<>>
    /\ stats = <<>>
    /\ paperObj = <<>>
    /\ state_file = <<>>
    /\ hist = [papers |-> <<>>, citations |-> <<>>, crashes |-> 0, lost |-> 0]

\* a batch method is called: begin_transaction
BeginPaperBatch ==
    /\ pc = "idle"
    /\ \E batch \in SeqsUpTo(CrashPaperRecords, MaxBatch) \ {<<>>} :
         lastCall' = InFlight("insert_paper_batch", batch, papers)
    /\ pc' = "in_transaction"
    /\ UNCHANGED <<papers, citations, unusedVars, hist>>

BeginCitationsBatch ==
    /\ pc = "idle"
    /\ \E batch \in SeqsUpTo(CrashCitationRecords, MaxBatch) \ {<<>>} :
         lastCall' = InFlight("insert_citations_batch", batch, citations)
    /\ pc' = "in_transaction"
    /\ UNCHANGED <<papers, citations, unusedVars, hist>>

\* one iteration of the loop of the batch method, inside the transaction
ExecuteRecord ==
    /\ pc = "in_transaction"
    /\ lastCall.k <= Len(lastCall.arg)
    /\ LET st == [rows |-> lastCall.rows, results |-> lastCall.results]
           out == IF lastCall.op = "insert_paper_batch"
                  THEN InsertOnePaper(st, lastCall.arg[lastCall.k])
                  ELSE InsertOneCitation(st, lastCall.arg[lastCall.k])
       IN /\ Len(out.rows) <= MaxCrashRows
          /\ lastCall' = [lastCall EXCEPT !.k = @ + 1, !.rows = out.rows,
                                          !.results = out.results]
    /\ UNCHANGED <<papers, citations, pc, unusedVars, hist>>

\* the loop is over: commit_transaction, and the call returns
CommitBatch ==
    /\ pc = "in_transaction"
    /\ lastCall.k > Len(lastCall.arg)
    /\ IF lastCall.op = "insert_paper_batch"
       THEN /\ papers' = commit_transaction(papers, lastCall.rows, TRUE)
            /\ hist' = [hist EXCEPT !.papers = lastCall.rows]
            /\ UNCHANGED citations
       ELSE /\ citations' = commit_transaction(citations, lastCall.rows, TRUE)
            /\ hist' = [hist EXCEPT !.citations = lastCall.rows]
            /\ UNCHANGED papers
    /\ lastCall' = NoCall
    /\ pc' = "idle"
    /\ UNCHANGED unusedVars

\* the process ends, between two calls or at any point of a batch write
Crash ==
    /\ pc \in {"idle", "in_transaction"}
    /\ hist.crashes < MaxCrashes
    /\ \E finalized \in BOOLEAN :
         LET active == pc = "in_transaction"
             onPapers == active /\ lastCall.op = "insert_paper_batch"
             onCitations == active /\ lastCall.op = "insert_citations_batch"
             view == IF active THEN lastCall.rows ELSE <<>>
         IN /\ papers' = AfterExit(papers, view, onPapers, finalized)
            /\ citations' = AfterExit(citations, view, onCitations, finalized)
            /\ hist' = [hist EXCEPT
                          !.crashes = @ + 1,
                          !.lost = IF onPapers THEN Len(view) - Len(papers')
                                   ELSE IF onCitations THEN Len(view) - Len(citations')
                                   ELSE 0]
    /\ lastCall' = NoCall
    /\ pc' = "crashed"
    /\ UNCHANGED unusedVars

\* a new process opens the database: init_database creates what is missing
Reopen ==
    /\ pc = "crashed"
    /\ pc' = "idle"
    /\ hist' = [hist EXCEPT !.papers = papers, !.citations = citations, !.lost = 0]
    /\ UNCHANGED <<storeVars, unusedVars>>

CrashNext ==
    \/ BeginPaperBatch
    \/ BeginCitationsBatch
    \/ ExecuteRecord
    \/ CommitBatch
    \/ Crash
    \/ Reopen

SpecCrash == CrashInit /\ [][CrashNext]_vars

-----------------------------------------------------------------------------
(* update_paper_citations and mark_paper_done *)

MaxMetric == 1       \* the values of nciting, ncited and strength: 0..MaxMetric
MaxUpdateRows == 2   \* rows of the papers table

\* the default of the parameters nciting, ncited and strength: not supplied
None == -1

\* COALESCE(?, column)
COALESCE(param, column) == IF param = None THEN column ELSE param

\* mutant: the UPDATE writes every parameter as it is given
update_paper_citations_Overwrite(rows, paper_id, nciting, ncited, strength) ==
    IF paper_id \in 1..Len(rows)
    THEN [rows EXCEPT ![paper_id].nciting = IF nciting = None THEN 0 ELSE nciting,
                      ![paper_id].ncited = IF ncited = None THEN 0 ELSE ncited,
                      ![paper_id].strength = IF strength = None THEN 0 ELSE strength]
    ELSE rows

\* update_paper_citations: UPDATE papers SET nciting = COALESCE(?, nciting),
\* ncited = COALESCE(?, ncited), strength = COALESCE(?, strength) WHERE id = ?
\* (the connection is in autocommit mode: the statement is committed at once)
update_paper_citations(rows, paper_id, nciting, ncited, strength) ==
    IF paper_id \in 1..Len(rows)
    THEN [rows EXCEPT ![paper_id].nciting = COALESCE(nciting, @),
                      ![paper_id].ncited = COALESCE(ncited, @),
                      ![paper_id].strength = COALESCE(strength, @)]
    ELSE rows

\* mark_paper_done: UPDATE papers SET done = TRUE WHERE id = ?
mark_paper_done(rows, paper_id) ==
    IF paper_id \in 1..Len(rows)
    THEN [rows EXCEPT ![paper_id].done = TRUE]
    ELSE rows

Metrics == 0..MaxMetric

\* the records the table is filled with: a DOI, any metrics
UpdateRecords ==
    {PaperData("doi" :> i) @@ [strength |-> s, title |-> 1] : i \in 1..MaxUpdateRows, s \in Metrics}

UpdateInit ==
    /\ papers = <<>>
    /\ citations = <<>>
    /\ lastCall = NoCall
    /\ cm = NewCiteManager
    /\ pc = "none"
    /\ priority_queue = <<>>
    /\ processed_paper_ids = {}
    /\ paper_references = <<>>
    /\ pending_papers = <<>>
    /\ pending_citations = <<>>
    /\ stats = <<>>
    /\ paperObj = <<>>
    /\ state_file = <<>>
    /\ hist = [papers |-> <<>>]

\* insert_paper: one record
InsertPaper ==
    \E rec \in UpdateRecords :
        /\ Len(papers) < MaxUpdateRows
        /\ papers' = insert_paper_batch(papers, <<rec>>).rows
        /\ lastCall' = [op |-> "insert_paper", arg |-> <<rec>>]
        /\ hist' = [papers |-> papers]
        /\ UNCHANGED <<citations, pc, unusedVars>>

\* update_paper_citations(paper_id, nciting, ncited, strength), each of the
\* three supplied or not; the id may be of no row
UpdatePaperCitations ==
    \E paper_id \in 1..(MaxUpdateRows + 1) :
    \E nciting \in Metrics \cup {None}, ncited \in Metrics \cup {None},
       strength \in Metrics \cup {None} :
        /\ papers' = update_paper_citations(papers, paper_id, nciting, ncited, strength)
        /\ lastCall' = [op |-> "update_paper_citations",
                        arg |-> [paper_id |-> paper_id, nciting |-> nciting,
                                 ncited |-> ncited, strength |-> strength]]
        /\ hist' = [papers |-> papers]
        /\ UNCHANGED <<citations, pc, unusedVars>>

\* mark_paper_done(paper_id)
MarkPaperDone ==
    \E paper_id \in 1..(MaxUpdateRows + 1) :
        /\ papers' = mark_paper_done(papers, paper_id)
        /\ lastCall' = [op |-> "mark_paper_done", arg |-> [paper_id |-> paper_id]]
        /\ hist' = [papers |-> papers]
        /\ UNCHANGED <<citations, pc, unusedVars>>

UpdateNext == InsertPaper \/ UpdatePaperCitations \/ MarkPaperDone

SpecUpdate == UpdateInit /\ [][UpdateNext]_vars

-----------------------------------------------------------------------------

(* get_top_papers *)

MaxTopRows == 3      \* rows of the papers table
MaxTopMetric == 2    \* the values of nciting: 0..MaxTopMetric
MaxTopCited == 1     \* the values of ncited: 0..MaxTopCited

valid_metrics == {"nciting", "ncited", "strength", "issued_year"}

\* if metric not in valid_metrics: metric = 'nciting'
EffectiveMetric(metric) == IF metric \notin valid_metrics THEN "nciting" ELSE metric

\* WHERE {metric} IS NOT NULL AND {metric} > 0
Selected(rows, m) == {i \in 1..Len(rows) : rows[i][m] > 0}

\* ORDER BY {metric} DESC: the orders of the selected rows the statement
\* allows; it names no second key, so rows of equal metric come in any order
OrderedByDesc(rows, m) ==
    LET ids == Selected(rows, m) IN
    {s \in [1..Cardinality(ids) -> ids] :
        /\ \A i \in 1..Len(s) : \A j \in 1..Len(s) : i # j => s[i] # s[j]
        /\ \A i \in 1..Len(s) : \A j \in 1..Len(s) :
              i < j => rows[s[i]][m] >= rows[s[j]][m]}

\* LIMIT ?: a negative limit is no limit
Limit(s, limit) ==
    IF limit < 0 \/ limit >= Len(s) THEN s ELSE SubSeq(s, 1, limit)

\* get_top_papers(metric, limit): the ids of the returned rows, in the order
\* returned; the set of the results the query may give
get_top_papers(rows, metric, limit) ==
    {Limit(s, limit) : s \in OrderedByDesc(rows, EffectiveMetric(metric))}

TopMetrics == {"nciting", "ncited", "bogus"}

TopLimits == -1..MaxTopRows

\* the next record stored: the DOI is new, the metrics are any
TopRecords(n) ==
    {[PaperData("doi" :> n) EXCEPT !.nciting = a, !.ncited = b] :
        a \in 0..MaxTopMetric, b \in 0..MaxTopCited}

TopInit ==
    /\ papers = <<>>
    /\ citations = <<>>
    /\ lastCall = NoCall
    /\ cm = NewCiteManager
    /\ pc = "none"
    /\ priority_queue = <<>>
    /\ processed_paper_ids = {}
    /\ paper_references = <<>>
    /\ pending_papers = <<>>
    /\ pending_citations = <<>>
    /\ stats = <<>>
    /\ paperObj = <<>>
    /\ state_file = <<>>
    /\ hist = <<>>

TopInsertPaper ==
    /\ Len(papers) < MaxTopRows
    /\ \E rec \in TopRecords(Len(papers) + 1) :
          /\ papers' = insert_paper_batch(papers, <<rec>>).rows
          /\ lastCall' = [op |-> "insert_paper", arg |-> <<rec>>]
    /\ UNCHANGED <<citations, pc, unusedVars, hist>>

GetTopPapers ==
    \E metric \in TopMetrics, limit \in TopLimits :
    \E result \in get_top_papers(papers, metric, limit) :
        /\ lastCall' = [op |-> "get_top_papers",
                        arg |-> [metric |-> metric, limit |-> limit],
                        result |-> result]
        /\ UNCHANGED <<papers, citations, pc, unusedVars, hist>>

TopNext == TopInsertPaper \/ GetTopPapers

SpecTop == TopInit /\ [][TopNext]_vars

-----------------------------------------------------------------------------

(* The Crawler of flashcard/crawler.py *)

NPapers == 4         \* papers of the remote citation graph, identified by DOI
MaxSeeds == 1        \* papers in one add_seed_papers call
MaxSeedCalls == 2    \* add_seed_papers calls in a behaviour
MaxRestarts == 1     \* Crawler objects constructed after the first

\* the limits of the Crawler object, as a caller sets them
max_depth == 1
max_papers == 2
paper_batch_size == 2
citation_batch_size == 2
state_save_frequency == 2

\* self.current_depth: set in __init__, never assigned again
current_depth == 0

\* calculate_priority: priority = reference_count + citation_count - (depth * 50)
DepthPenalty == 50

Papers == 1..NPapers

\* what the remote API holds: (oci, citing, cited).  Paper 1 cites paper 2 and
\* is cited by paper 3; paper 4 has no relation
RemoteCitations ==
    {[oci |-> 1, citing |-> 1, cited |-> 2], [oci |-> 2, citing |-> 3, cited |-> 1]}

\* a set of relation rows as a list, in OCI order
RECURSIVE ByOci(_)
ByOci(S) ==
    IF S = {} THEN <<>>
    ELSE LET c == CHOOSE x \in S : \A y \in S : x.oci <= y.oci
         IN <<c>> \o ByOci(S \ {c})

\* CiteManager.post_and_receive: the parsed rows when the status is 200, and
\* an empty list when it is not
post_and_receive(op, p, status) ==
    IF status = "ok"
    THEN IF op = "citations"
         THEN ByOci({c \in RemoteCitations : c.cited = p})
         ELSE ByOci({c \in RemoteCitations : c.citing = p})
    ELSE <<>>

\* Paper.__init__: nciting = 0, ncited = 0
NewPaperObj == [nciting |-> 0, ncited |-> 0]

InitStats == [papers_processed |-> 0, citations_found |-> 0,
              api_requests |-> 0, database_batches |-> 0]

\* Crawler._paper_to_dict
_paper_to_dict(obj, p) ==
    [doi |-> p, pmid |-> NULL, openalex |-> NULL, omid |-> NULL, isbn |-> NULL,
     arxiv |-> NULL, nciting |-> obj[p].nciting, ncited |-> obj[p].ncited,
     done |-> FALSE]

\* mutant: the depth penalty added instead of subtracted
calculate_priority_PenaltyAdded(refs, obj, p, depth) ==
    -(refs[p] + (obj[p].nciting + obj[p].ncited) + (depth * DepthPenalty))

\* Crawler.calculate_priority
calculate_priority(refs, obj, p, depth) ==
    -(refs[p] + (obj[p].nciting + obj[p].ncited) - (depth * DepthPenalty))

\* the order of heap entries: tuples (priority, paper_id, paper) compare by
\* priority, then by paper_id
EntryLess(a, b) ==
    \/ a.priority < b.priority
    \/ a.priority = b.priority /\ a.paper_id < b.paper_id

\* heapq.heappush; the heap is kept as the list of its entries in pop order
RECURSIVE heappush(_, _)
heappush(q, e) ==
    IF q = <<>> THEN <<e>>
    ELSE IF EntryLess(e, Head(q)) THEN <<e>> \o q
    ELSE <<Head(q)>> \o heappush(Tail(q), e)

\* heapq.heappop
heappop(q) == [item |-> Head(q), rest |-> Tail(q)]

\* any(item[1] == paper_id for item in self.priority_queue)
InQueue(q, p) == \E i \in 1..Len(q) : q[i].paper_id = p

RECURSIVE PushAll(_, _)
PushAll(q, items) ==
    IF items = <<>> THEN q ELSE PushAll(heappush(q, Head(items)), Tail(items))

\* db.add_edge(citation, citing_paper, cited_paper) evaluates citation.get_id(),
\* and Citation defines no get_id: AttributeError
add_edge_raises == TRUE

\* db.add_node(paper) is called without the depth argument of
\* add_node(self, paper, depth): TypeError
add_node_raises == TRUE

\* the body of the loop of queue_citations_for_batch for one paper of a relation
QueueOne(acc, processed, q, p, depth) ==
    IF p \notin processed /\ depth <= max_depth /\ ~InQueue(q, p)
    THEN [acc EXCEPT !.new = Append(@, [priority |-> calculate_priority(acc.refs, acc.obj, p, depth),
                                        paper_id |-> p])]
    ELSE acc

\* one relation (citation, cited_paper, citing_paper) in queue_citations_for_batch
QueueRelation(acc, processed, q, c, depth) ==
    LET a1 == [acc EXCEPT !.refs[c.cited] = @ + 1]
        a2 == [a1 EXCEPT !.refs[c.citing] = @ + 1]
        a3 == [a2 EXCEPT
                 !.pending_papers = @ \o <<_paper_to_dict(acc.obj, c.cited),
                                          _paper_to_dict(acc.obj, c.citing)>>,
                 !.pending_citations = Append(@, [oci |-> c.oci, citing |-> c.citing,
                                                  cited |-> c.cited])]
        a4 == QueueOne(a3, processed, q, c.cited, depth)
    IN QueueOne(a4, processed, q, c.citing, depth)

RECURSIVE QueueRelations(_, _, _, _, _)
QueueRelations(acc, processed, q, cits, depth) ==
    IF cits = <<>> THEN acc
    ELSE QueueRelations(QueueRelation(acc, processed, q, Head(cits), depth),
                        processed, q, Tail(cits), depth)

\* Crawler.queue_citations_for_batch; cs is the Crawler and the Store
queue_citations_for_batch(cs, processed, cits, depth) ==
    IF cits # <<>> /\ add_edge_raises
    THEN [cs EXCEPT !.raised = TRUE]
    ELSE LET acc == QueueRelations(
                        [refs |-> cs.refs, obj |-> cs.obj, new |-> <<>>,
                         pending_papers |-> cs.pending_papers,
                         pending_citations |-> cs.pending_citations],
                        processed, cs.queue, cits, depth)
         IN [cs EXCEPT !.refs = acc.refs,
                       !.pending_papers = acc.pending_papers,
                       !.pending_citations = acc.pending_citations,
                       !.queue = PushAll(cs.queue, acc.new)]

\* Crawler.queue_paper_update
queue_paper_update(cs, p, nciting, ncited) ==
    LET existing_id == get_paper_id_by_identifier(cs.papers, _paper_to_dict(cs.obj, p))
    IN IF existing_id # NULL
       THEN [cs EXCEPT !.papers = update_paper_citations(
                                      mark_paper_done(cs.papers, existing_id),
                                      existing_id, nciting, ncited, 0)]
       ELSE cs

\* "Remove duplicates while preserving order": the first record of every DOI
RECURSIVE unique_papers(_, _)
unique_papers(pp, seen_dois) ==
    IF pp = <<>> THEN <<>>
    ELSE LET doi == Head(pp).doi IN
         IF doi # NULL /\ doi \notin seen_dois
         THEN <<Head(pp)>> \o unique_papers(Tail(pp), seen_dois \cup {doi})
         ELSE IF doi = NULL
         THEN <<Head(pp)>> \o unique_papers(Tail(pp), seen_dois)
         ELSE unique_papers(Tail(pp), seen_dois)

\* "Convert paper IDs to database IDs": the records whose two ends have a row
RECURSIVE citation_db_records(_, _)
citation_db_records(rows, pcs) ==
    IF pcs = <<>> THEN <<>>
    ELSE LET c == Head(pcs)
             citing_db_id == get_paper_id_by_identifier(rows, PaperData("doi" :> c.citing))
             cited_db_id == get_paper_id_by_identifier(rows, PaperData("doi" :> c.cited))
         IN (IF citing_db_id # NULL /\ cited_db_id # NULL
             THEN <<[oci |-> c.oci, citing_paper_id |-> citing_db_id,
                     cited_paper_id |-> cited_db_id]>>
             ELSE <<>>) \o citation_db_records(rows, Tail(pcs))

\* the paper half of process_pending_batches and force_process_all_batches
FlushPapers(cs) ==
    [cs EXCEPT !.papers = insert_paper_batch(cs.papers,
                              unique_papers(cs.pending_papers, {})).rows,
               !.stats.database_batches = @ + 1,
               !.pending_papers = <<>>]

\* the citation half of process_pending_batches and force_process_all_batches
FlushCitations(cs) ==
    LET recs == citation_db_records(cs.papers, cs.pending_citations)
    IN IF recs # <<>>
       THEN [cs EXCEPT !.citations = insert_citations_batch(cs.citations, recs).rows,
                       !.stats.database_batches = @ + 1,
                       !.pending_citations = <<>>]
       ELSE [cs EXCEPT !.pending_citations = <<>>]

\* Crawler.process_pending_batches
process_pending_batches(cs) ==
    LET c1 == IF Len(cs.pending_papers) >= paper_batch_size THEN FlushPapers(cs) ELSE cs
    IN IF Len(c1.pending_citations) >= citation_batch_size THEN FlushCitations(c1) ELSE c1

\* mutant: the final flush keeps the size thresholds of the periodic flush
force_process_all_batches_Thresholds(cs) == process_pending_batches(cs)

\* Crawler.force_process_all_batches
force_process_all_batches(cs) ==
    LET c1 == IF cs.pending_papers # <<>> THEN FlushPapers(cs) ELSE cs
    IN IF c1.pending_citations # <<>> THEN FlushCitations(c1) ELSE c1

\* Op applied to the value of v, which is computed once
Once(v, Op(_)) == CHOOSE r \in {Op(x) : x \in {v}} : TRUE

\* Crawler.crawl_paper.  o1, o2: what the two relation lookups do ("ok", a
\* non-200 status, or an exception of the HTTP layer); ox: the CrossRef lookup.
\* The result carries success, the value crawl_paper returns.
crawl_paper(cs0, processed, p, depth, o1, o2, ox) ==
    LET cs == [cs0 EXCEPT !.raised = FALSE]
        Fail(c) == [c EXCEPT !.success = FALSE]
        citing_relations == post_and_receive("citations", p, o1)
        cited_relations == post_and_receive("references", p, o2)
        all_citations == citing_relations \o cited_relations
        s1 == [cs EXCEPT !.obj[p].nciting = Len(citing_relations),
                         !.stats.api_requests = @ + 1]
        s2 == [s1 EXCEPT !.obj[p].ncited = Len(cited_relations),
                         !.stats.api_requests = @ + 1]
        s3 == Once(s2, LAMBDA c : queue_citations_for_batch(c, processed, all_citations,
                                                            depth + 1))
        s4 == Once(s3, LAMBDA c : queue_paper_update(c, p, Len(citing_relations),
                                                     Len(cited_relations)))
        s5 == [s4 EXCEPT !.stats.citations_found = @ + Len(all_citations),
                         !.stats.papers_processed = @ + 1]
    IN IF o1 = "raise" THEN Fail(cs)
       ELSE IF o2 = "raise" THEN Fail(s1)
       ELSE IF ox = "raise" THEN Fail(s2)
       ELSE IF s3.raised THEN Fail(s2)
       ELSE IF add_node_raises THEN Fail(s5)
       ELSE [process_pending_batches(s5) EXCEPT !.success = TRUE]

\* the Crawler and the Store as one record, and back
Cs == [queue |-> priority_queue, refs |-> paper_references,
       pending_papers |-> pending_papers, pending_citations |-> pending_citations,
       stats |-> stats, obj |-> paperObj, papers |-> papers, citations |-> citations,
       raised |-> FALSE, success |-> FALSE]

\* list(self.processed_paper_ids): the ids in some order (here: ascending)
RECURSIVE SetToList(_)
SetToList(S) ==
    IF S = {} THEN <<>>
    ELSE LET x == CHOOSE y \in S : \A z \in S : y <= z
         IN <<x>> \o SetToList(S \ {x})

\* set(state.get('processed_paper_ids', []))
ListToSet(l) == {l[i] : i \in 1..Len(l)}

\* dict(self.paper_references): the keys the Counter holds and their counts
CounterToDict(refs) == [p \in {q \in DOMAIN refs : refs[q] # 0} |-> refs[p]]

\* mutant: the reference counters are not taken from the file
DictToCounter_Empty(dict) == [p \in Papers |-> 0]

\* Counter(state.get('paper_references', {})): a key it does not hold counts 0
DictToCounter(dict) == [p \in Papers |-> IF p \in DOMAIN dict THEN dict[p] ELSE 0]

\* Crawler.save_state: what pickle.dump writes
Checkpoint(processed, q, refs, st) ==
    [exists |-> TRUE, processed_paper_ids |-> SetToList(processed),
     priority_queue |-> q, paper_references |-> CounterToDict(refs), stats |-> st]

\* mutant: the stats of the state file are not taken over
load_state_FreshStats(file) ==
    [processed_paper_ids |-> ListToSet(file.processed_paper_ids),
     priority_queue |-> file.priority_queue,
     paper_references |-> DictToCounter(file.paper_references),
     stats |-> InitStats]

\* Crawler.load_state on a file save_state wrote: pickle.load and the fields
\* taken from the dictionary
load_state(file) ==
    [processed_paper_ids |-> ListToSet(file.processed_paper_ids),
     priority_queue |-> file.priority_queue,
     paper_references |-> DictToCounter(file.paper_references),
     stats |-> file.stats]

NoFile == [exists |-> FALSE]

Outcomes == {"ok", "http_error", "raise"}

SeedLists == UNION {[1..k -> Papers] : k \in 1..MaxSeeds}

InitHist == [fetches |-> [p \in Papers |-> 0], seedCalls |-> 0, restarts |-> 0,
             last |-> [kind |-> "none"], resumed |-> NoFile,
             exit |-> "none", atExit |-> <<0, 0>>,
             crashed |-> [discovered |-> {}, afterCheckpoint |-> FALSE]]

-----------------------------------------------------------------------------
(* The Crawler specification *)

\* Crawler.__init__ with no state file, on an empty database
Init ==
    /\ papers = <<>>
    /\ citations = <<>>
    /\ lastCall = NoCall
    /\ cm = NewCiteManager
    /\ pc = "idle"
    /\ priority_queue = <<>>
    /\ processed_paper_ids = {}
    /\ paper_references = [p \in Papers |-> 0]
    /\ pending_papers = <<>>
    /\ pending_citations = <<>>
    /\ stats = InitStats
    /\ paperObj = [p \in Papers |-> NewPaperObj]
    /\ state_file = NoFile
    /\ hist = InitHist

\* mutant: add_seed_papers pushes every seed
RECURSIVE SeedPush_Unchecked(_, _, _, _, _)
SeedPush_Unchecked(q, processed, refs, obj, seeds) ==
    IF seeds = <<>> THEN q
    ELSE SeedPush_Unchecked(
             heappush(q, [priority |-> calculate_priority(refs, obj, Head(seeds), 0),
                          paper_id |-> Head(seeds)]),
             processed, refs, obj, Tail(seeds))

\* the loop of add_seed_papers: the entries it pushes
RECURSIVE SeedPush(_, _, _, _, _)
SeedPush(q, processed, refs, obj, seeds) ==
    IF seeds = <<>> THEN q
    ELSE LET p == Head(seeds)
             q1 == IF p \notin processed
                   THEN heappush(q, [priority |-> calculate_priority(refs, obj, p, 0),
                                     paper_id |-> p])
                   ELSE q
         IN SeedPush(q1, processed, refs, obj, Tail(seeds))

\* Crawler.add_seed_papers, called at most maxCalls times
SeedPapers(maxCalls) ==
    \E seeds \in SeedLists :
        /\ pc = "idle"
        /\ hist.seedCalls < maxCalls
        /\ priority_queue' = SeedPush(priority_queue, processed_paper_ids,
                                      paper_references, paperObj, seeds)
        /\ papers' = insert_paper_batch(papers,
                        [i \in 1..Len(seeds) |-> _paper_to_dict(paperObj, seeds[i])]).rows
        /\ stats' = [stats EXCEPT !.database_batches = @ + 1]
        /\ hist' = [hist EXCEPT !.seedCalls = @ + 1,
                                !.last = [kind |-> "seed", seeds |-> seeds]]
        /\ UNCHANGED <<citations, lastCall, cm, pc, processed_paper_ids,
                       paper_references, pending_papers, pending_citations,
                       paperObj, state_file>>

\* Crawler.add_seed_papers
add_seed_papers == SeedPapers(MaxSeedCalls)

\* crawl_network up to its loop
StartCrawl ==
    /\ pc = "idle"
    /\ pc' = "running"
    /\ hist' = [hist EXCEPT !.last = [kind |-> "start"]]
    /\ UNCHANGED <<storeVars, cm, priority_queue, processed_paper_ids,
                   paper_references, pending_papers, pending_citations, stats,
                   paperObj, state_file>>

\* mutant: the loop goes on while the Frontier holds an entry
LoopCondition_NoCap == priority_queue # <<>>

\* the condition of the while loop, but for the clock
LoopCondition ==
    priority_queue # <<>> /\ stats.papers_processed < max_papers

\* one iteration of the loop of crawl_network: a popped id that is in the
\* processed set is skipped, any other is crawled; then the periodic save
CrawlStep ==
    /\ pc = "running"
    /\ LoopCondition
    /\ LET popped == heappop(priority_queue)
           p == popped.item.paper_id
           depth == IF current_depth < max_depth THEN current_depth ELSE max_depth
       IN IF p \in processed_paper_ids
          THEN /\ priority_queue' = popped.rest
               /\ hist' = [hist EXCEPT !.last = [kind |-> "skip", id |-> p]]
               /\ UNCHANGED <<storeVars, cm, pc, processed_paper_ids,
                              paper_references, pending_papers, pending_citations,
                              stats, paperObj, state_file>>
          ELSE /\ \E o1 \in Outcomes, o2 \in Outcomes, ox \in {"ok", "raise"} :
                    \E r \in {crawl_paper([Cs EXCEPT !.queue = popped.rest],
                                          processed_paper_ids, p, depth, o1, o2, ox)} :
                    LET processed == IF r.success THEN processed_paper_ids \cup {p}
                                     ELSE processed_paper_ids
                    IN /\ priority_queue' = r.queue
                       /\ paper_references' = r.refs
                       /\ pending_papers' = r.pending_papers
                       /\ pending_citations' = r.pending_citations
                       /\ stats' = r.stats
                       /\ paperObj' = r.obj
                       /\ papers' = r.papers
                       /\ citations' = r.citations
                       /\ processed_paper_ids' = processed
                       /\ state_file' =
                             IF r.stats.papers_processed % state_save_frequency = 0
                             THEN Checkpoint(processed, r.queue, r.refs, r.stats)
                             ELSE state_file
                       /\ hist' = [hist EXCEPT
                             !.fetches[p] = @ + 1,
                             !.last = [kind |-> "crawl", id |-> p, o1 |-> o1,
                                       o2 |-> o2, ox |-> ox, success |-> r.success,
                                       depth |-> depth,
                                       pushed |-> Len(r.queue) - Len(popped.rest)]]
               /\ UNCHANGED <<lastCall, cm, pc>>

\* mutant: the loop is not left when its condition is false
LoopEndsOn_Blocked(reasons) ==
    /\ pc = "running"
    /\ \E why \in reasons \ {"condition"} :
         /\ why = "condition" => ~LoopCondition
         /\ hist' = [hist EXCEPT !.last = [kind |-> "exit", why |-> why],
                                 !.exit = why,
                                 !.atExit = <<Len(pending_papers),
                                              Len(pending_citations)>>]
    /\ pc' = "draining"
    /\ UNCHANGED <<storeVars, cm, priority_queue, processed_paper_ids,
                   paper_references, pending_papers, pending_citations, stats,
                   paperObj, state_file>>

\* the loop ends: the condition is false, the time is up, KeyboardInterrupt,
\* or an exception escapes the iteration
LoopEndsOn(reasons) ==
    /\ pc = "running"
    /\ \E why \in reasons :
         /\ why = "condition" => ~LoopCondition
         /\ hist' = [hist EXCEPT !.last = [kind |-> "exit", why |-> why],
                                 !.exit = why,
                                 !.atExit = <<Len(pending_papers),
                                              Len(pending_citations)>>]
    /\ pc' = "draining"
    /\ UNCHANGED <<storeVars, cm, priority_queue, processed_paper_ids,
                   paper_references, pending_papers, pending_citations, stats,
                   paperObj, state_file>>

LoopEnds == LoopEndsOn({"condition", "time", "interrupt", "exception"})

\* crawl_network after the loop: force_process_all_batches
Drain ==
    /\ pc = "draining"
    /\ LET r == force_process_all_batches(Cs)
       IN /\ papers' = r.papers
          /\ citations' = r.citations
          /\ pending_papers' = r.pending_papers
          /\ pending_citations' = r.pending_citations
          /\ stats' = r.stats
    /\ pc' = "saving"
    /\ hist' = [hist EXCEPT !.last = [kind |-> "drain"]]
    /\ UNCHANGED <<lastCall, cm, priority_queue, processed_paper_ids,
                   paper_references, paperObj, state_file>>

\* crawl_network after the flush: the final save_state, and the return
FinalSave ==
    /\ pc = "saving"
    /\ state_file' = Checkpoint(processed_paper_ids, priority_queue,
                                paper_references, stats)
    /\ pc' = "stopped"
    /\ hist' = [hist EXCEPT !.last = [kind |-> "save"]]
    /\ UNCHANGED <<storeVars, cm, priority_queue, processed_paper_ids,
                   paper_references, pending_papers, pending_citations, stats,
                   paperObj>>

\* the relations a crawl step of this run has discovered: the rows a relation
\* lookup of a crawled paper returned (get_citing_papers and get_cited_papers
\* set the paper's nciting and ncited to the number of rows)
Discovered ==
    {c \in RemoteCitations : paperObj[c.cited].nciting > 0
                             \/ paperObj[c.citing].ncited > 0}

\* the periodic save_state of the loop of crawl_network has just run
CheckpointJustWritten ==
    /\ pc = "running"
    /\ hist.last.kind = "crawl"
    /\ stats.papers_processed % state_save_frequency = 0

\* the process ends (at any point) and a new Crawler is constructed on the
\* same database and state file: __init__ and load_state
Restart ==
    /\ hist.restarts < MaxRestarts
    /\ pc' = "idle"
    /\ pending_papers' = <<>>
    /\ pending_citations' = <<>>
    /\ paperObj' = [p \in Papers |-> NewPaperObj]
    /\ IF state_file.exists
       THEN /\ processed_paper_ids' = load_state(state_file).processed_paper_ids
            /\ priority_queue' = load_state(state_file).priority_queue
            /\ paper_references' = load_state(state_file).paper_references
            /\ stats' = load_state(state_file).stats
       ELSE /\ processed_paper_ids' = {}
            /\ priority_queue' = <<>>
            /\ paper_references' = [p \in Papers |-> 0]
            /\ stats' = InitStats
    /\ hist' = [hist EXCEPT !.restarts = @ + 1,
                            !.fetches = [p \in Papers |-> 0],
                            !.resumed = state_file,
                            !.exit = "none",
                            !.atExit = <<0, 0>>,
                            !.crashed = [discovered |-> Discovered,
                                         afterCheckpoint |-> CheckpointJustWritten],
                            !.last = [kind |-> "restart"]]
    /\ UNCHANGED <<storeVars, cm, state_file>>

Next ==
    \/ add_seed_papers
    \/ StartCrawl
    \/ CrawlStep
    \/ LoopEnds
    \/ Drain
    \/ FinalSave
    \/ Restart

Spec == Init /\ [][Next]_vars

-----------------------------------------------------------------------------
(* KeyboardInterrupt inside a crawl step *)

\* the calls of crawl_paper during which the interrupt may be raised
InterruptPoints == {"get_citing_papers", "get_cited_papers", "get_set",
                    "queue_paper_update"}

\* crawl_paper up to the call in which KeyboardInterrupt is raised: it is no
\* Exception, so `except Exception` lets it pass and what the step had done
\* stays done.  defined is FALSE when the step does not get as far as `at`.
crawl_paper_interrupted(cs0, processed, p, depth, o1, o2, at) ==
    LET cs == [cs0 EXCEPT !.raised = FALSE]
        citing_relations == post_and_receive("citations", p, o1)
        cited_relations == post_and_receive("references", p, o2)
        all_citations == citing_relations \o cited_relations
        s1 == [cs EXCEPT !.obj[p].nciting = Len(citing_relations),
                         !.stats.api_requests = @ + 1]
        s2 == [s1 EXCEPT !.obj[p].ncited = Len(cited_relations),
                         !.stats.api_requests = @ + 1]
        s3 == queue_citations_for_batch(s2, processed, all_citations, depth + 1)
        existing_id == get_paper_id_by_identifier(s3.papers, _paper_to_dict(s3.obj, p))
        s4 == IF existing_id # NULL
              THEN [s3 EXCEPT !.papers = mark_paper_done(s3.papers, existing_id)]
              ELSE s3
    IN CASE at = "get_citing_papers" -> [state |-> cs, defined |-> TRUE]
         [] at = "get_cited_papers" -> [state |-> s1, defined |-> o1 # "raise"]
         [] at = "get_set" -> [state |-> s2, defined |-> o1 # "raise" /\ o2 # "raise"]
         [] at = "queue_paper_update" ->
                [state |-> s4,
                 defined |-> o1 # "raise" /\ o2 # "raise" /\ ~s3.raised]

\* an iteration of the loop of crawl_network during which KeyboardInterrupt is
\* raised inside crawl_paper: the pop, the part of the step before the
\* interrupt, and `except KeyboardInterrupt` of crawl_network
InterruptedStep ==
    /\ pc = "running"
    /\ LoopCondition
    /\ LET popped == heappop(priority_queue)
           p == popped.item.paper_id
           depth == IF current_depth < max_depth THEN current_depth ELSE max_depth
       IN /\ p \notin processed_paper_ids
          /\ \E o1 \in Outcomes, o2 \in Outcomes, at \in InterruptPoints :
               LET r == crawl_paper_interrupted([Cs EXCEPT !.queue = popped.rest],
                                                processed_paper_ids, p, depth, o1, o2, at)
               IN /\ r.defined
                  /\ priority_queue' = r.state.queue
                  /\ paper_references' = r.state.refs
                  /\ pending_papers' = r.state.pending_papers
                  /\ pending_citations' = r.state.pending_citations
                  /\ stats' = r.state.stats
                  /\ paperObj' = r.state.obj
                  /\ papers' = r.state.papers
                  /\ citations' = r.state.citations
                  /\ hist' = [hist EXCEPT
                        !.fetches[p] = @ + (IF at = "get_citing_papers" THEN 0 ELSE 1),
                        !.last = [kind |-> "interrupted", id |-> p, at |-> at],
                        !.exit = "interrupt",
                        !.atExit = <<Len(r.state.pending_papers),
                                     Len(r.state.pending_citations)>>]
    /\ pc' = "draining"
    /\ UNCHANGED <<lastCall, cm, processed_paper_ids, state_file>>

InterruptNext ==
    \/ add_seed_papers
    \/ StartCrawl
    \/ CrawlStep
    \/ InterruptedStep
    \/ LoopEnds
    \/ Drain
    \/ FinalSave

SpecInterrupt == Init /\ [][InterruptNext]_vars

-----------------------------------------------------------------------------

(* The cap on the papers processed *)

MaxCapSeedCalls == 3   \* add_seed_papers calls before the crawl

SeedBeforeCap == SeedPapers(MaxCapSeedCalls)

CapNext ==
    \/ SeedBeforeCap
    \/ StartCrawl
    \/ CrawlStep
    \/ LoopEnds
    \/ Drain
    \/ FinalSave

SpecCap == Init /\ [][CapNext]_vars

-----------------------------------------------------------------------------

(* A run of crawl_network with no time limit that nothing interrupts *)

\* the while condition of crawl_network is false
LoopExhausted == LoopEndsOn({"condition"})

LiveNext ==
    \/ add_seed_papers
    \/ StartCrawl
    \/ CrawlStep
    \/ LoopExhausted
    \/ Drain
    \/ FinalSave

\* crawl_network is sequential code: an iteration that can run does run, and
\* every call it makes returns or raises
SpecLive ==
    /\ Init
    /\ [][LiveNext]_vars
    /\ WF_vars(CrawlStep)
    /\ WF_vars(LoopExhausted)
    /\ WF_vars(Drain)
    /\ WF_vars(FinalSave)

-----------------------------------------------------------------------------

(* The end of crawl_network, for any content of the pending buffers *)

MaxPending == 2      \* records in a pending buffer when the loop ends

\* the records queue_citations_for_batch appends to pending_citations
PendingCitations ==
    {[oci |-> o, citing |-> e[1], cited |-> e[2]] : o \in 1..MaxOci, e \in EndPoints}

\* the records queue_citations_for_batch appends to pending_papers
PendingPapers == {_paper_to_dict([p \in Papers |-> NewPaperObj], q) : q \in Papers}

\* a Crawler in its loop with an empty Frontier, on a database that holds the
\* papers 1 and 2 or none; the buffers hold any records
DrainInit ==
    /\ papers \in {<<>>, insert_paper_batch(<<>>, <<PaperData("doi" :> 1),
                                                    PaperData("doi" :> 2)>>).rows}
    /\ citations = <<>>
    /\ lastCall = NoCall
    /\ cm = NewCiteManager
    /\ pc = "running"
    /\ priority_queue = <<>>
    /\ processed_paper_ids = {}
    /\ paper_references = [p \in Papers |-> 0]
    /\ pending_papers \in SeqsUpTo(PendingPapers, MaxPending)
    /\ pending_citations \in SeqsUpTo(PendingCitations, MaxPending)
    /\ stats = InitStats
    /\ paperObj = [p \in Papers |-> NewPaperObj]
    /\ state_file = NoFile
    /\ hist = InitHist

DrainNext ==
    \/ LoopEnds
    \/ Drain
    \/ FinalSave

SpecDrain == DrainInit /\ [][DrainNext]_vars

-----------------------------------------------------------------------------
(* Flushes whose transaction fails *)

MaxFlushes == 2      \* periodic flushes before the loop ends

\* a batch all of whose records are processed normally
Healthy(batch) == [k \in 1..Len(batch) |-> [rec |-> batch[k], fault |-> "none"]]

\* the paper half of the flush when the COMMIT of the Store may raise:
\* insert_paper_batch returns [None] * n and the caller goes on
FlushPapersOrFail(cs, commit_raises) ==
    [cs EXCEPT !.papers = insert_paper_batch_or_fail(cs.papers,
                              Healthy(unique_papers(cs.pending_papers, {})),
                              commit_raises).rows,
               !.stats.database_batches = @ + 1,
               !.pending_papers = <<>>]

\* the citation half of the flush when the COMMIT of the Store may raise
FlushCitationsOrFail(cs, commit_raises) ==
    LET recs == citation_db_records(cs.papers, cs.pending_citations)
    IN IF recs # <<>>
       THEN [cs EXCEPT !.citations = insert_citations_batch_or_fail(cs.citations,
                                         Healthy(recs), commit_raises).rows,
                       !.stats.database_batches = @ + 1,
                       !.pending_citations = <<>>]
       ELSE [cs EXCEPT !.pending_citations = <<>>]

\* Crawler.process_pending_batches on a Store that may fail
process_pending_batches_or_fail(cs, f1, f2) ==
    LET c1 == IF Len(cs.pending_papers) >= paper_batch_size
              THEN FlushPapersOrFail(cs, f1) ELSE cs
    IN IF Len(c1.pending_citations) >= citation_batch_size
       THEN FlushCitationsOrFail(c1, f2) ELSE c1

\* Crawler.force_process_all_batches on a Store that may fail
force_process_all_batches_or_fail(cs, f1, f2) ==
    LET c1 == IF cs.pending_papers # <<>> THEN FlushPapersOrFail(cs, f1) ELSE cs
    IN IF c1.pending_citations # <<>> THEN FlushCitationsOrFail(c1, f2) ELSE c1

\* did a transaction of the periodic flush fail
PeriodicFlushFails(cs, f1, f2) ==
    \/ f1 /\ Len(cs.pending_papers) >= paper_batch_size
    \/ /\ f2
       /\ Len(cs.pending_citations) >= citation_batch_size
       /\ citation_db_records(process_pending_batches_or_fail(cs, f1, FALSE).papers,
                              cs.pending_citations) # <<>>

\* did a transaction of the final flush fail
FinalFlushFails(cs, f1, f2) ==
    \/ f1 /\ cs.pending_papers # <<>>
    \/ /\ f2
       /\ cs.pending_citations # <<>>
       /\ citation_db_records(force_process_all_batches_or_fail(cs, f1, FALSE).papers,
                              cs.pending_citations) # <<>>

\* the ghost record of a flush: whether a transaction failed and what the
\* buffers and the Store held before it
FlushRecord(cs, failed) ==
    [failed |-> failed, pending_papers |-> cs.pending_papers,
     pending_citations |-> cs.pending_citations, papers |-> cs.papers,
     citations |-> cs.citations]

NoFlush == [failed |-> FALSE, pending_papers |-> <<>>, pending_citations |-> <<>>,
            papers |-> <<>>, citations |-> <<>>]

FlushInit ==
    /\ papers \in {<<>>, insert_paper_batch(<<>>, <<PaperData("doi" :> 1),
                                                    PaperData("doi" :> 2)>>).rows}
    /\ citations = <<>>
    /\ lastCall = NoCall
    /\ cm = NewCiteManager
    /\ pc = "running"
    /\ priority_queue = <<>>
    /\ processed_paper_ids = {}
    /\ paper_references = [p \in Papers |-> 0]
    /\ pending_papers \in SeqsUpTo(PendingPapers, MaxPending)
    /\ pending_citations \in SeqsUpTo(PendingCitations, MaxPending)
    /\ stats = InitStats
    /\ paperObj = [p \in Papers |-> NewPaperObj]
    /\ state_file = NoFile
    /\ hist = [InitHist EXCEPT !.last = [kind |-> "none", flushes |-> 0, flush |-> NoFlush]]

\* the end of crawl_paper: process_pending_batches, and the loop goes on
PeriodicFlush ==
    /\ pc = "running"
    /\ hist.last.kind \in {"none", "flush"}
    /\ hist.last.flushes < MaxFlushes
    /\ \E f1, f2 \in BOOLEAN :
         LET r == process_pending_batches_or_fail(Cs, f1, f2)
         IN /\ papers' = r.papers
            /\ citations' = r.citations
            /\ pending_papers' = r.pending_papers
            /\ pending_citations' = r.pending_citations
            /\ stats' = r.stats
            /\ hist' = [hist EXCEPT !.last =
                           [kind |-> "flush", flushes |-> hist.last.flushes + 1,
                            flush |-> FlushRecord(Cs, PeriodicFlushFails(Cs, f1, f2))]]
    /\ pc' = "running"
    /\ UNCHANGED <<lastCall, cm, priority_queue, processed_paper_ids,
                   paper_references, paperObj, state_file>>

\* crawl_network after the loop: force_process_all_batches on a Store that
\* may fail
FailingDrain ==
    /\ pc = "draining"
    /\ \E f1, f2 \in BOOLEAN :
         LET r == force_process_all_batches_or_fail(Cs, f1, f2)
         IN /\ papers' = r.papers
            /\ citations' = r.citations
            /\ pending_papers' = r.pending_papers
            /\ pending_citations' = r.pending_citations
            /\ stats' = r.stats
            /\ hist' = [hist EXCEPT !.last =
                           [kind |-> "drain",
                            flush |-> FlushRecord(Cs, FinalFlushFails(Cs, f1, f2))]]
    /\ pc' = "saving"
    /\ UNCHANGED <<lastCall, cm, priority_queue, processed_paper_ids,
                   paper_references, paperObj, state_file>>

FlushNext ==
    \/ PeriodicFlush
    \/ LoopEnds
    \/ FailingDrain
    \/ FinalSave

SpecFlush == FlushInit /\ [][FlushNext]_vars

-----------------------------------------------------------------------------
(* save_state, and load_state in a new Crawler *)

MaxQueue == 2        \* entries of the Frontier when it is saved
MaxCount == 1        \* the largest value of a counter when it is saved

\* the entries a Frontier may hold
QueueEntries == {[priority |-> pr, paper_id |-> p] : pr \in {-1, 0}, p \in Papers}

\* the heaps of at most MaxQueue entries
Heaps == {PushAll(<<>>, items) : items \in SeqsUpTo(QueueEntries, MaxQueue)}

\* a Crawler with any processed set, Frontier, reference counters and stats,
\* and no state file yet
RoundTripInit ==
    /\ papers = <<>>
    /\ citations = <<>>
    /\ lastCall = NoCall
    /\ cm = NewCiteManager
    /\ pc = "idle"
    /\ priority_queue \in Heaps
    /\ processed_paper_ids \in SUBSET Papers
    /\ paper_references \in [Papers -> 0..MaxCount]
    /\ pending_papers = <<>>
    /\ pending_citations = <<>>
    /\ \E n \in 0..MaxCount : stats = [InitStats EXCEPT !.papers_processed = n,
                                                        !.api_requests = 2 * n]
    /\ paperObj = [p \in Papers |-> NewPaperObj]
    /\ state_file = NoFile
    /\ hist = [saved |-> <<>>]

\* Crawler.save_state
SaveState ==
    /\ pc = "idle"
    /\ state_file' = Checkpoint(processed_paper_ids, priority_queue,
                                paper_references, stats)
    /\ hist' = [saved |-> [priority_queue |-> priority_queue,
                           processed_paper_ids |-> processed_paper_ids,
                           paper_references |-> paper_references,
                           stats |-> stats]]
    /\ pc' = "saved"
    /\ UNCHANGED <<storeVars, cm, priority_queue, processed_paper_ids,
                   paper_references, pending_papers, pending_citations, stats,
                   paperObj>>

\* a new Crawler on the same state file: __init__ sets the empty values, then
\* load_state
Construct ==
    /\ pc = "saved"
    /\ processed_paper_ids' = load_state(state_file).processed_paper_ids
    /\ priority_queue' = load_state(state_file).priority_queue
    /\ paper_references' = load_state(state_file).paper_references
    /\ stats' = load_state(state_file).stats
    /\ pending_papers' = <<>>
    /\ pending_citations' = <<>>
    /\ paperObj' = [p \in Papers |-> NewPaperObj]
    /\ pc' = "loaded"
    /\ UNCHANGED <<storeVars, cm, state_file, hist>>

RoundTripNext == SaveState \/ Construct

SpecRoundTrip == RoundTripInit /\ [][RoundTripNext]_vars

-----------------------------------------------------------------------------
(* A Crawler resumed with a processed set *)

MaxResumedSeedCalls == 1   \* add_seed_papers calls after the resume

\* the Frontiers of a state file: at most MaxQueue entries of priority 0
ResumedHeaps ==
    {PushAll(<<>>, items) :
        items \in SeqsUpTo({[priority |-> 0, paper_id |-> p] : p \in Papers}, MaxQueue)}

\* a Crawler that load_state has given the processed set and the Frontier of
\* its state file, on an empty database
ResumedInit ==
    /\ papers = <<>>
    /\ citations = <<>>
    /\ lastCall = NoCall
    /\ cm = NewCiteManager
    /\ pc = "idle"
    /\ priority_queue \in ResumedHeaps
    /\ processed_paper_ids \in SUBSET Papers
    /\ paper_references = [p \in Papers |-> 0]
    /\ pending_papers = <<>>
    /\ pending_citations = <<>>
    /\ stats = InitStats
    /\ paperObj = [p \in Papers |-> NewPaperObj]
    /\ state_file = NoFile
    /\ hist = InitHist

SeedAfterResume == SeedPapers(MaxResumedSeedCalls)

ResumedNext ==
    \/ SeedAfterResume
    \/ StartCrawl
    \/ CrawlStep
    \/ LoopEnds
    \/ Drain
    \/ FinalSave

SpecResumed == ResumedInit /\ [][ResumedNext]_vars

-----------------------------------------------------------------------------

(* A Crawler resumed with the stats of its state file *)

MaxLoaded == 3       \* the largest papers_processed of a state file

\* the state files an earlier session may have left: its Frontier, its count
\* of papers processed (above max_papers when the earlier session ran with a
\* larger limit), and the empty processed set that every save_state writes
CountFiles ==
    {Checkpoint({}, q, [p \in Papers |-> 0],
                [InitStats EXCEPT !.papers_processed = n, !.api_requests = 2 * n]) :
        q \in ResumedHeaps, n \in 0..MaxLoaded}

\* Crawler.__init__ on such a state file; the database holds the rows of the
\* papers of the Frontier
CountInit ==
    /\ state_file \in CountFiles
    /\ papers = insert_paper_batch(<<>>,
                    [i \in 1..Len(state_file.priority_queue) |->
                        _paper_to_dict([p \in Papers |-> NewPaperObj],
                                       state_file.priority_queue[i].paper_id)]).rows
    /\ citations = <<>>
    /\ lastCall = NoCall
    /\ cm = NewCiteManager
    /\ pc = "idle"
    /\ priority_queue = load_state(state_file).priority_queue
    /\ processed_paper_ids = load_state(state_file).processed_paper_ids
    /\ paper_references = load_state(state_file).paper_references
    /\ pending_papers = <<>>
    /\ pending_citations = <<>>
    /\ stats = load_state(state_file).stats
    /\ paperObj = [p \in Papers |-> NewPaperObj]
    /\ hist = [InitHist EXCEPT !.resumed = state_file]

CountNext ==
    \/ StartCrawl
    \/ CrawlStep
    \/ LoopEnds
    \/ Drain
    \/ FinalSave

SpecCount == CountInit /\ [][CountNext]_vars

-----------------------------------------------------------------------------

(* load_state on a state file that is corrupt or malformed *)

\* the values __init__ gives the limits
init_max_depth == 3
init_max_papers == 1000
init_paper_batch_size == 50
init_citation_batch_size == 100

InitLimits == [max_depth |-> init_max_depth, max_papers |-> init_max_papers,
               paper_batch_size |-> init_paper_batch_size,
               citation_batch_size |-> init_citation_batch_size]

\* the limits of the Crawler that wrote the file
SavedLimits == [max_depth |-> max_depth, max_papers |-> max_papers,
                paper_batch_size |-> paper_batch_size,
                citation_batch_size |-> citation_batch_size]

\* the keys load_state reads, in the order of its assignments
LoadOrder == <<"processed_paper_ids", "priority_queue", "paper_references",
               "stats", "max_depth", "max_papers", "batch_sizes">>

\* a key of the pickled dictionary is missing, holds what save_state wrote, or
\* holds a value of another type
KeyStatus == {"absent", "good", "bad"}

\* the keys whose value load_state converts (set(...), Counter(...), .get):
\* a value of another type raises there; the other keys are assigned as read
Converted == {"processed_paper_ids", "paper_references", "batch_sizes"}

\* the state files: pickle.load fails or yields no dictionary (unreadable), or
\* it yields a dictionary with these keys
StateFiles ==
    {[readable |-> r, keys |-> k] :
        r \in BOOLEAN, k \in [{LoadOrder[i] : i \in 1..Len(LoadOrder)} -> KeyStatus]}

IsCorrupt(file) ==
    ~file.readable \/ \E key \in DOMAIN file.keys : file.keys[key] = "bad"

\* the body of the try block of load_state from its k-th assignment on: got
\* says, for every key assigned so far, what the object took from the file
RECURSIVE LoadFrom(_, _, _)
LoadFrom(file, got, k) ==
    IF k > Len(LoadOrder) THEN got
    ELSE LET key == LoadOrder[k] IN
         IF file.keys[key] = "bad" /\ key \in Converted
         THEN got                                   \* raises: "Starting fresh..."
         ELSE LoadFrom(file, [got EXCEPT ![key] = file.keys[key]], k + 1)

\* what a new Crawler holds for every key after load_state: "initial" (the
\* value of __init__), "absent" (the default of state.get), "good" or "bad"
load_state_keys(file) ==
    LET fresh == [key \in DOMAIN file.keys |-> "initial"]
    IN IF file.readable THEN LoadFrom(file, fresh, 1) ELSE fresh

\* the contents of a well-formed checkpoint, and values of another type
SavedQueue == <<[priority |-> 0, paper_id |-> 1]>>
SavedStats == [InitStats EXCEPT !.papers_processed = 1, !.api_requests = 2]
BadQueue == <<"junk">>
BadStats == [junk |-> TRUE]
BadLimit == -1

\* a value of the new object: taken from the file, or the one of __init__
Loaded(got, key, initial, good, bad) ==
    IF got[key] = "good" THEN good
    ELSE IF got[key] = "bad" THEN bad
    ELSE initial

\* state.get('max_depth', 3), state.get('max_papers', 1000),
\* batch_sizes.get('paper_batch_size', 50), ...: a missing key gives the value
\* of __init__ again
LoadedLimits(got) ==
    [max_depth |-> Loaded(got, "max_depth", init_max_depth, max_depth, BadLimit),
     max_papers |-> Loaded(got, "max_papers", init_max_papers, max_papers, BadLimit),
     paper_batch_size |-> Loaded(got, "batch_sizes", init_paper_batch_size,
                                 paper_batch_size, init_paper_batch_size),
     citation_batch_size |-> Loaded(got, "batch_sizes", init_citation_batch_size,
                                    citation_batch_size, init_citation_batch_size)]

\* no Crawler yet; the state file exists and holds anything
LoadInit ==
    /\ papers = <<>>
    /\ citations = <<>>
    /\ lastCall = NoCall
    /\ cm = NewCiteManager
    /\ pc = "none"
    /\ priority_queue = <<>>
    /\ processed_paper_ids = {}
    /\ paper_references = [p \in Papers |-> 0]
    /\ pending_papers = <<>>
    /\ pending_citations = <<>>
    /\ stats = InitStats
    /\ paperObj = [p \in Papers |-> NewPaperObj]
    /\ state_file \in StateFiles
    /\ hist = [limits |-> InitLimits]

\* Crawler.__init__: the initial values, then load_state
ConstructOnFile ==
    /\ pc = "none"
    /\ LET got == load_state_keys(state_file) IN
       /\ processed_paper_ids' = Loaded(got, "processed_paper_ids", {}, {1}, {})
       /\ priority_queue' = Loaded(got, "priority_queue", <<>>, SavedQueue, BadQueue)
       /\ paper_references' =
              Loaded(got, "paper_references", [p \in Papers |-> 0],
                     DictToCounter(1 :> 1), [p \in Papers |-> 0])
       /\ stats' = Loaded(got, "stats", InitStats, SavedStats, BadStats)
       /\ hist' = [limits |-> LoadedLimits(got)]
    /\ pc' = "idle"
    /\ UNCHANGED <<storeVars, cm, pending_papers, pending_citations, paperObj,
                   state_file>>

LoadNext == ConstructOnFile

SpecLoad == LoadInit /\ [][LoadNext]_vars

-----------------------------------------------------------------------------
(* The Paper registry of flashcard/citations.py *)

MaxDoi == 1          \* distinct DOIs
MaxPmid == 1         \* distinct PMIDs
MaxInstances == 2    \* Paper objects created in a behaviour
MaxIds == 2          \* positional identifiers of one call
MaxKwargs == 1       \* keyword identifiers of one call

\* the identifier types of the model, in the order of Paper.idtypes
RegTypes == <<"doi", "pmid">>

\* an identifier string: '10.1234/x' is [type doi, prefixed FALSE],
\* 'doi:10.1234/x' is [type doi, prefixed TRUE]; a string no regex matches
IdString(t, v, b) == [type |-> t, val |-> v, prefixed |-> b]

InvalidString == IdString("invalid", 0, FALSE)

IdStrings ==
    {IdString("doi", v, b) : v \in 1..MaxDoi, b \in BOOLEAN}
    \cup {IdString("pmid", v, b) : v \in 1..MaxPmid, b \in BOOLEAN}
    \cup {InvalidString}

\* the value False that the validators return for a string that does not match
NoId == IdString("none", 0, FALSE)

\* match.groups()[0]: the identifier without its optional prefix
Groups0(str) == [str EXCEPT !.prefixed = FALSE]

\* Paper._val_id: the regex of the given type against the string
_val_id(str, idtype) ==
    IF str.type = idtype THEN Groups0(str) ELSE NoId

\* Paper._val_ids: the first type of idtypes whose regex matches
_val_ids(str) ==
    IF \E i \in 1..Len(RegTypes) : RegTypes[i] = str.type
    THEN [tp |-> str.type, newid |-> Groups0(str)]
    ELSE [tp |-> "none", newid |-> NoId]

\* d[k] = v on a dictionary
DictPut(dict, k, v) == [x \in DOMAIN dict \cup {k} |-> IF x = k THEN v ELSE dict[x]]

\* the arguments of a call as one list: the keyword arguments, which __new__
\* reads first, then the positional ones
Arguments(ids, kwargs) ==
    [i \in 1..Len(kwargs) |-> [kind |-> "kw", typ |-> kwargs[i].typ, id |-> kwargs[i].id]]
    \o [i \in 1..Len(ids) |-> [kind |-> "pos", typ |-> "none", id |-> ids[i]]]

\* what good_typedids keeps of an argument: the string as given for a keyword
\* argument (good_typedids[typ] = _id), the validated one for a positional
\* argument (good_typedids[tp] = newid)
Kept(arg, newid) == IF arg.kind = "kw" THEN arg.id ELSE newid

\* the two loops of Paper.__new__: the first argument whose validated
\* identifier is registered ends the call with that instance (found); the
\* others are collected in good_typedids
RECURSIVE ScanArguments(_, _, _, _)
ScanArguments(registry, args, k, good_typedids) ==
    IF k > Len(args) THEN [found |-> 0, good_typedids |-> good_typedids]
    ELSE LET arg == args[k]
             v == IF arg.kind = "kw"
                  THEN [tp |-> arg.typ, newid |-> _val_id(arg.id, arg.typ)]
                  ELSE _val_ids(arg.id)
         IN IF v.newid # NoId /\ v.newid \in DOMAIN registry
            THEN [found |-> registry[v.newid], good_typedids |-> good_typedids]
            ELSE IF v.newid # NoId
            THEN ScanArguments(registry, args, k + 1,
                               DictPut(good_typedids, v.tp, Kept(arg, v.newid)))
            ELSE ScanArguments(registry, args, k + 1, good_typedids)

\* cls._instances[_id] = instance for every value of a dictionary
RegisterAll(registry, dict, inst) ==
    LET ids == {dict[t] : t \in DOMAIN dict}
    IN [x \in DOMAIN registry \cup ids |-> IF x \in ids THEN inst ELSE registry[x]]

\* Paper.__new__ on the class state cls = [instances, registry]
Paper__new__(cls, ids, kwargs) ==
    LET scan == ScanArguments(cls.registry, Arguments(ids, kwargs), 1, <<>>)
        inst == Len(cls.instances) + 1
    IN IF scan.found # 0
       THEN [instances |-> cls.instances, registry |-> cls.registry,
             result |-> scan.found, created |-> FALSE]
       ELSE [instances |-> Append(cls.instances, scan.good_typedids),
             registry |-> RegisterAll(cls.registry, scan.good_typedids, inst),
             result |-> inst, created |-> TRUE]

\* mutant: __init__ runs again on an instance that __new__ found
Paper__init___Again(r, kwargs) ==
    [r EXCEPT !.registry =
        RegisterAll(@, [i \in 1..Len(kwargs) |-> kwargs[i].id], r.result)]

\* Paper.__init__: nothing on an instance that is initialized; on a new one,
\* every keyword identifier is registered as given
Paper__init__(r, kwargs) ==
    IF ~r.created THEN r
    ELSE [r EXCEPT !.registry =
             RegisterAll(@, [i \in 1..Len(kwargs) |-> kwargs[i].id], r.result)]

\* Paper(*ids, **kwargs)
Paper(cls, ids, kwargs) == Paper__init__(Paper__new__(cls, ids, kwargs), kwargs)

\* the instance an identifier string resolves to: the one Paper(str) returns
\* when it creates none, 0 when it would create one
Resolve(registry, str) ==
    LET v == _val_ids(str)
    IN IF v.newid # NoId /\ v.newid \in DOMAIN registry THEN registry[v.newid] ELSE 0

\* the keyword arguments of a call: at most MaxKwargs pairs
KwargLists ==
    {<<>>} \cup {<<[typ |-> RegTypes[i], id |-> str]>> :
                    i \in 1..Len(RegTypes), str \in IdStrings}

\* the strings of a call that are valid identifiers, validated
ValidIds(ids, kwargs) ==
    ({_val_ids(ids[i]).newid : i \in 1..Len(ids)}
     \cup {_val_id(kwargs[i].id, kwargs[i].typ) : i \in 1..Len(kwargs)})
    \ {NoId}

\* the validated identifier of an argument of a call
Validated(arg) ==
    IF arg.kind = "kw" THEN _val_id(arg.id, arg.typ) ELSE _val_ids(arg.id).newid

\* the arguments of a call whose identifier is registered, by position
MatchingArgs(registry, args) ==
    {k \in 1..Len(args) : Validated(args[k]) # NoId
                          /\ Validated(args[k]) \in DOMAIN registry}

\* the Paper of the first argument examined whose identifier is registered
\* (keyword arguments are examined before positional ones); 0 when none is
FirstExamined(registry, args) ==
    LET m == MatchingArgs(registry, args)
    IN IF m = {} THEN 0
       ELSE registry[Validated(args[CHOOSE k \in m : \A j \in m : k <= j])]

\* a session in which no Paper has been created
RegistryInit ==
    /\ papers = <<>>
    /\ citations = <<>>
    /\ lastCall = NoCall
    /\ cm = NewCiteManager
    /\ pc = "none"
    /\ priority_queue = <<>>
    /\ processed_paper_ids = {}
    /\ paper_references = <<>>
    /\ pending_papers = <<>>
    /\ pending_citations = <<>>
    /\ stats = <<>>
    /\ paperObj = [instances |-> <<>>, registry |-> <<>>]
    /\ state_file = <<>>
    /\ hist = [called |-> FALSE]

PaperCall ==
    \E ids \in SeqsUpTo(IdStrings, MaxIds), kwargs \in KwargLists :
        LET r == Paper(paperObj, ids, kwargs) IN
        /\ Len(r.instances) <= MaxInstances
        /\ paperObj' = [instances |-> r.instances, registry |-> r.registry]
        /\ hist' = [called |-> TRUE, valid |-> ValidIds(ids, kwargs),
                    first |-> FirstExamined(paperObj.registry, Arguments(ids, kwargs)),
                    matched |-> {paperObj.registry[x] :
                                   x \in ValidIds(ids, kwargs) \cap DOMAIN paperObj.registry},
                    result |-> r.result, created |-> r.created]
        /\ UNCHANGED <<storeVars, cm, pc, priority_queue, processed_paper_ids,
                       paper_references, pending_papers, pending_citations,
                       stats, state_file>>

RegistryNext == PaperCall

SpecRegistry == RegistryInit /\ [][RegistryNext]_vars

-----------------------------------------------------------------------------
(* Claims about the Crawler *)

\* C2 (as claimed): in every state of a crawl no paper id occurs in more than
\* one entry of the priority queue.
C2_AtMostOnceInFrontier ==
    \A i, j \in 1..Len(priority_queue) :
        i # j => priority_queue[i].paper_id # priority_queue[j].paper_id

\* the ids of the entries of a priority queue
QueueIds(q) == {q[i].paper_id : i \in 1..Len(q)}

\* C3 (as claimed, on finite runs): when a Crawler constructed from a
\* checkpoint has run until its Frontier was exhausted and has stopped, every
\* paper that was in the checkpointed Frontier is in the processed set.
C3_ResumedFrontierIsProcessed ==
    (/\ hist.restarts > 0
     /\ hist.resumed.exists
     /\ pc = "stopped"
     /\ hist.exit = "condition"
     /\ priority_queue = <<>>)
    => QueueIds(hist.resumed.priority_queue) \subseteq processed_paper_ids

\* the rows of the papers table that carry the DOI of paper p
RowsOf(rows, p) == {i \in 1..Len(rows) : rows[i].doi = p}

\* C4 (as claimed): after a crawl step that failed, the paper is not in the
\* processed set and no row of it is marked done.
C4_FailedStepLeavesPaperNotDone ==
    (hist.last.kind = "crawl" /\ ~hist.last.success)
    => /\ hist.last.id \notin processed_paper_ids
       /\ \A i \in RowsOf(papers, hist.last.id) : ~papers[i].done

\* C5 (as claimed): a crawl step in which a relation lookup got a non-2xx
\* answer receives a result that no successful lookup gives, counts the
\* requests, and leaves the paper as it was: not processed, its row's done flag
\* and the count of processed papers unchanged.
C5_Non2xxLeavesPaperUnprocessed ==
    [][(/\ hist'.last.kind = "crawl"
        /\ hist'.fetches # hist.fetches
        /\ "http_error" \in {hist'.last.o1, hist'.last.o2})
       => LET p == hist'.last.id IN
          /\ \A op \in {"citations", "references"} :
                post_and_receive(op, p, "http_error")
                    \notin {post_and_receive(op, q, "ok") : q \in Papers}
          /\ stats'.api_requests > stats.api_requests
          /\ p \notin processed_paper_ids'
          /\ \A i \in RowsOf(papers, p) : papers'[i].done = papers[i].done
          /\ stats'.papers_processed = stats.papers_processed]_vars

\* C6: however the loop ends, crawl_network goes on to the flush, which empties
\* both pending buffers whatever their size and writes no checkpoint, then to
\* the final save, which writes the checkpoint of the Crawler as it is then,
\* and only then stops; when it has stopped both buffers are empty.
C6_LoopEndFlushesThenCheckpoints ==
    [][/\ (pc = "running" /\ pc' # "running") => pc' = "draining"
       /\ (pc = "draining" /\ pc' # "draining")
            => /\ pc' = "saving"
               /\ pending_papers' = <<>>
               /\ pending_citations' = <<>>
               /\ state_file' = state_file
       /\ (pc = "saving" /\ pc' # "saving")
            => /\ pc' = "stopped"
               /\ pending_papers' = <<>>
               /\ pending_citations' = <<>>
               /\ state_file' = Checkpoint(processed_paper_ids, priority_queue,
                                           paper_references, stats)
       /\ pc' = "stopped" => pc \in {"saving", "stopped"}
       /\ pc' = "stopped" => pending_papers' = <<>> /\ pending_citations' = <<>>]_vars

\* C6 witness: crawl_network has stopped after a KeyboardInterrupt that found
\* both buffers filled below their flush thresholds, and the checkpoint is
\* written.
C6_Witness ==
    /\ pc = "stopped"
    /\ hist.exit = "interrupt"
    /\ hist.atExit[1] > 0 /\ hist.atExit[1] < paper_batch_size
    /\ hist.atExit[2] > 0 /\ hist.atExit[2] < citation_batch_size
    /\ state_file.exists
    /\ Len(papers) > 0

-----------------------------------------------------------------------------
(* The priority of Frontier entries, in both crawlers *)

MaxPrioDepth == 2    \* the depths an entry is pushed at: 0..MaxPrioDepth
MaxRefBumps == 1     \* references counted after the first push
NPrioPapers == 3     \* the papers (pages) that may enter the Frontier

PrioPapers == 1..NPrioPapers

\* IntelligentWikiCrawler.calculate_priority: depth_penalty = current_depth * 10
WikiDepthPenalty == 10

\* IntelligentWikiCrawler.calculate_priority
wiki_calculate_priority(refs, p, depth) == -(refs[p] - (depth * WikiDepthPenalty))

RefCounts == {1, 5, 10}
MetricSums == {0, 4}

NotPushed == [pushed |-> FALSE]

\* a crawler of either kind with an empty Frontier; the reference counts and
\* the metrics of the papers are any of a few values
PrioInit ==
    /\ papers = <<>>
    /\ citations = <<>>
    /\ lastCall = NoCall
    /\ cm = NewCiteManager
    /\ pc = "idle"
    /\ priority_queue = <<>>
    /\ processed_paper_ids = {}
    /\ paper_references \in [PrioPapers -> RefCounts]
    /\ pending_papers = <<>>
    /\ pending_citations = <<>>
    /\ stats = InitStats
    /\ \E m \in [PrioPapers -> MetricSums] :
          paperObj = [p \in PrioPapers |-> [nciting |-> m[p], ncited |-> 0]]
    /\ state_file = NoFile
    /\ \E v \in {"paper", "wiki"} :
          hist = [variant |-> v, pushed |-> [p \in PrioPapers |-> NotPushed],
                  bumps |-> 0, last |-> [kind |-> "none"]]

\* the push of queue_citations_for_batch (Crawler) and of crawl_page (wiki
\* crawler): an id that is not in the queue, at the priority computed now
PrioPush ==
    \E p \in PrioPapers, depth \in 0..MaxPrioDepth :
        /\ ~hist.pushed[p].pushed
        /\ ~InQueue(priority_queue, p)
        /\ LET priority == IF hist.variant = "paper"
                           THEN calculate_priority(paper_references, paperObj, p, depth)
                           ELSE wiki_calculate_priority(paper_references, p, depth)
           IN priority_queue' = heappush(priority_queue,
                                         [priority |-> priority, paper_id |-> p])
        /\ hist' = [hist EXCEPT
              !.pushed[p] = [pushed |-> TRUE,
                             ref |-> paper_references[p],
                             metric |-> IF hist.variant = "paper"
                                        THEN paperObj[p].nciting + paperObj[p].ncited
                                        ELSE 0,
                             depth |-> depth],
              !.last = [kind |-> "push", id |-> p]]
        /\ UNCHANGED <<storeVars, cm, pc, processed_paper_ids, paper_references,
                       pending_papers, pending_citations, stats, paperObj, state_file>>

\* self.paper_references[id] += 1 (self.link_references[link_name] += 1): a
\* reference to a paper is counted; entries in the queue keep their priority
PrioReference ==
    \E p \in PrioPapers :
        /\ hist.bumps < MaxRefBumps
        /\ paper_references' = [paper_references EXCEPT ![p] = @ + 1]
        /\ hist' = [hist EXCEPT !.bumps = @ + 1, !.last = [kind |-> "reference", id |-> p]]
        /\ UNCHANGED <<storeVars, cm, pc, priority_queue, processed_paper_ids,
                       pending_papers, pending_citations, stats, paperObj, state_file>>

\* heapq.heappop(self.priority_queue) at the head of the crawl loop
PrioPop ==
    /\ priority_queue # <<>>
    /\ priority_queue' = heappop(priority_queue).rest
    /\ hist' = [hist EXCEPT !.last = [kind |-> "pop",
                                      id |-> heappop(priority_queue).item.paper_id]]
    /\ UNCHANGED <<storeVars, cm, pc, processed_paper_ids, paper_references,
                   pending_papers, pending_citations, stats, paperObj, state_file>>

PrioNext ==
    \/ PrioPush
    \/ PrioReference
    \/ PrioPop

SpecPrio == PrioInit /\ [][PrioNext]_vars

-----------------------------------------------------------------------------
(* The Wikipedia crawler of flashcard/wiki_crawler.py *)

NPages == 3            \* pages of the wiki, identified by name
MaxWikiSeeds == 2      \* pages in one add_seed_pages call
MaxWikiSeedCalls == 1  \* add_seed_pages calls in a behaviour
MaxLinks == 2          \* internal links of a page
ManyRefs == 1011       \* a reference count of earlier runs

\* crawl_continuously(max_pages)
wiki_max_pages == 3

\* self.max_depth = 3
wiki_max_depth == 3

\* heapq.heappush(self.priority_queue, (-1000, page, 0))
SeedPriority == -1000

\* internal_links[:20]
LinkLimit == 20

Pages == 1..NPages

WikiStats == [pages_processed |-> 0, pages_skipped |-> 0, total_links_found |-> 0]

\* for link_data in internal_links: self.link_references[link_name] += 1
RECURSIVE CountLinks(_, _)
CountLinks(refs, links) ==
    IF links = <<>> THEN refs
    ELSE CountLinks([refs EXCEPT ![Head(links)] = @ + 1], Tail(links))

\* the loop over internal_links[:20] of crawl_page: a link that is neither
\* processed nor in the queue is pushed at its priority of now
RECURSIVE PushLinks(_, _, _, _, _)
PushLinks(q, processed, refs, links, depth) ==
    IF links = <<>> THEN q
    ELSE LET l == Head(links)
             q1 == IF l \notin processed /\ ~InQueue(q, l)
                   THEN heappush(q, [priority |-> wiki_calculate_priority(refs, l, depth),
                                     paper_id |-> l, depth |-> depth])
                   ELSE q
         IN PushLinks(q1, processed, refs, Tail(links), depth)

\* IntelligentWikiCrawler.crawl_page.  outcome: the fetch raises, the page is
\* filtered out as non-scientific, or it is parsed; links: its internal links
crawl_page(w, page, depth, outcome, links) ==
    CASE outcome = "raise" -> [w EXCEPT !.stats.pages_skipped = @ + 1]
      [] outcome = "filtered" -> [w EXCEPT !.stats.pages_skipped = @ + 1]
      [] outcome = "ok" ->
           LET refs == CountLinks(w.refs, links)
               first == SubSeq(links, 1, IF Len(links) < LinkLimit THEN Len(links)
                                         ELSE LinkLimit)
           IN [w EXCEPT !.refs = refs,
                        !.stats.total_links_found = @ + Len(links),
                        !.stats.pages_processed = @ + 1,
                        !.queue = IF depth < wiki_max_depth
                                  THEN PushLinks(w.queue, w.processed, refs, first, depth + 1)
                                  ELSE w.queue]

\* IntelligentWikiCrawler.save_state: what pickle.dump writes
WikiCheckpoint(processed, q, refs, st) ==
    [exists |-> TRUE, processed_pages |-> SetToList(processed),
     priority_queue |-> q, link_references |-> CounterToDict(refs), stats |-> st]

\* a crawler that load_state has given the reference counts of earlier runs:
\* crawl_page counts every link of a page and pushes the first 20 only, and
\* none at max_depth, so a page may be counted often and never pushed
WikiInit ==
    /\ papers = <<>>
    /\ citations = <<>>
    /\ lastCall = NoCall
    /\ cm = NewCiteManager
    /\ pc = "idle"
    /\ priority_queue = <<>>
    /\ processed_paper_ids = {}
    /\ paper_references \in [Pages -> {0, ManyRefs}]
    /\ pending_papers = <<>>
    /\ pending_citations = <<>>
    /\ stats = WikiStats
    /\ paperObj = <<>>
    /\ state_file = NoFile
    /\ hist = [seedCalls |-> 0, last |-> [kind |-> "none"]]

\* the loop of add_seed_pages
RECURSIVE SeedPagesPush(_, _, _)
SeedPagesPush(q, processed, seeds) ==
    IF seeds = <<>> THEN q
    ELSE LET q1 == IF Head(seeds) \notin processed
                   THEN heappush(q, [priority |-> SeedPriority,
                                     paper_id |-> Head(seeds), depth |-> 0])
                   ELSE q
         IN SeedPagesPush(q1, processed, Tail(seeds))

\* IntelligentWikiCrawler.add_seed_pages
add_seed_pages ==
    \E seeds \in SeqsUpTo(Pages, MaxWikiSeeds) \ {<<>>} :
        /\ pc = "idle"
        /\ hist.seedCalls < MaxWikiSeedCalls
        /\ priority_queue' = SeedPagesPush(priority_queue, processed_paper_ids, seeds)
        /\ hist' = [seedCalls |-> hist.seedCalls + 1,
                    last |-> [kind |-> "seed", seeds |-> seeds]]
        /\ UNCHANGED <<storeVars, cm, pc, processed_paper_ids, paper_references,
                       pending_papers, pending_citations, stats, paperObj, state_file>>

\* crawl_continuously up to its loop
WikiStart ==
    /\ pc = "idle"
    /\ pc' = "running"
    /\ hist' = [hist EXCEPT !.last = [kind |-> "start"]]
    /\ UNCHANGED <<storeVars, cm, priority_queue, processed_paper_ids,
                   paper_references, pending_papers, pending_citations, stats,
                   paperObj, state_file>>

WikiLoopCondition ==
    priority_queue # <<>> /\ stats.pages_processed < wiki_max_pages

\* one iteration of the loop of crawl_continuously: the pop; a processed page
\* is skipped; any other is crawled and added to processed_pages whatever
\* crawl_page returned; then the periodic save
WikiStep ==
    /\ pc = "running"
    /\ WikiLoopCondition
    /\ LET popped == heappop(priority_queue)
           page == popped.item.paper_id
           depth == popped.item.depth
       IN IF page \in processed_paper_ids
          THEN /\ priority_queue' = popped.rest
               /\ hist' = [hist EXCEPT !.last = [kind |-> "skip", id |-> page,
                                                 depth |-> depth]]
               /\ UNCHANGED <<processed_paper_ids, paper_references, stats, state_file>>
          ELSE \E outcome \in {"ok", "filtered", "raise"} :
               \E links \in SeqsUpTo(Pages, MaxLinks) :
                   LET w == crawl_page([queue |-> popped.rest, refs |-> paper_references,
                                        processed |-> processed_paper_ids,
                                        stats |-> stats],
                                       page, depth, outcome, links)
                       processed == processed_paper_ids \cup {page}
                   IN /\ outcome # "ok" => links = <<>>
                      /\ priority_queue' = w.queue
                      /\ paper_references' = w.refs
                      /\ stats' = w.stats
                      /\ processed_paper_ids' = processed
                      /\ state_file' = IF w.stats.pages_processed % 10 = 0
                                       THEN WikiCheckpoint(processed, w.queue, w.refs, w.stats)
                                       ELSE state_file
                      /\ hist' = [hist EXCEPT !.last = [kind |-> "crawl", id |-> page,
                                                        depth |-> depth]]
    /\ UNCHANGED <<storeVars, cm, pc, pending_papers, pending_citations, paperObj>>

\* the loop ends (condition, time, KeyboardInterrupt): the final save_state
WikiStop ==
    /\ pc = "running"
    /\ state_file' = WikiCheckpoint(processed_paper_ids, priority_queue,
                                    paper_references, stats)
    /\ pc' = "stopped"
    /\ hist' = [hist EXCEPT !.last = [kind |-> "save"]]
    /\ UNCHANGED <<storeVars, cm, priority_queue, processed_paper_ids,
                   paper_references, pending_papers, pending_citations, stats,
                   paperObj>>

WikiNext == add_seed_pages \/ WikiStart \/ WikiStep \/ WikiStop

SpecWiki == WikiInit /\ [][WikiNext]_vars

-----------------------------------------------------------------------------

(* The rate-limited client: CiteManager._get.  Time is in tenths of a second *)

MaxCalls == 3        \* calls made through the client
MaxTime == 100       \* the clock stops the model here

min_wait == 11       \* self.min_wait = 1.1 seconds
rate_window == 600   \* self.rate_window = 10*60 seconds
rate_max == 9        \* self.rate_max = 0.9 requests/second, in tenths

\* the round trip of a request: shorter than, equal to and longer than min_wait
Latencies == {3, 11, 20}

\* what the caller does between two calls takes this long
Delays == {0, 4}

Max(a, b) == IF a >= b THEN a ELSE b

\* [rt for rt in self.request_times if rt > cutoff_time]
RECURSIVE Evict(_, _)
Evict(times, cutoff_time) ==
    IF times = <<>> THEN <<>>
    ELSE (IF Head(times) > cutoff_time THEN <<Head(times)>> ELSE <<>>)
         \o Evict(Tail(times), cutoff_time)

\* the while loop of _manage_rate: requests_per_s > rate_max, sleep 5.0 / rate_max
RECURSIVE RateWait(_)
RateWait(c) ==
    IF c.nrequests * 10 > rate_max * rate_window
    THEN LET current_time == c.now + (500 \div rate_max)
             kept == Evict(c.request_times, (current_time \div 10) - rate_window)
         IN RateWait([c EXCEPT !.now = current_time, !.request_times = kept,
                               !.nrequests = Len(kept)])
    ELSE c

\* CiteManager._manage_rate(t), t in whole seconds
_manage_rate(c, t) ==
    LET kept == Evict(Append(c.request_times, t), t - rate_window)
    IN RateWait([c EXCEPT !.request_times = kept, !.nrequests = Len(kept)])

\* the calls the client has made, the last two kept
Record(c, call) ==
    [c EXCEPT !.calls = IF Len(c.calls) < 2 THEN Append(c.calls, call)
                        ELSE <<c.calls[2], call>>]

\* mutant: no sleep after the request
_get_NoSleep(c, dt, outcome) ==
    LET t0 == c.now
        t1 == t0 + dt
        done == Record([c EXCEPT !.now = t1],
                       [t0 |-> t0, t1 |-> t1, raised |-> outcome = "raise"])
    IN IF outcome = "raise" THEN done
       ELSE IF done.nrequests % 5 = 0 THEN _manage_rate(done, t1 \div 10)
       ELSE done

\* CiteManager._get: the request takes dt; outcome "raise" is sess.get raising
_get(c, dt, outcome) ==
    LET t0 == c.now
        t1 == t0 + dt
        sleep_time == Max(min_wait - dt, 0)
        call == [t0 |-> t0, t1 |-> t1, raised |-> outcome = "raise"]
        slept == Record([c EXCEPT !.now = t1 + sleep_time], call)
    IN IF outcome = "raise" THEN Record([c EXCEPT !.now = t1], call)
       ELSE IF slept.nrequests % 5 = 0 THEN _manage_rate(slept, t1 \div 10)
       ELSE slept

\* a call through the client
Get ==
    \E dt \in Latencies, outcome \in {"response", "raise"} :
        /\ hist.calls < MaxCalls
        /\ cm.now < MaxTime
        /\ cm' = _get(cm, dt, outcome)
        /\ hist' = [hist EXCEPT !.calls = @ + 1, !.delayed = FALSE]
        /\ UNCHANGED <<storeVars, crawlVarsButHist>>

\* the caller works between two calls
CallerDelay ==
    \E d \in Delays :
        /\ d > 0
        /\ ~hist.delayed
        /\ cm.now < MaxTime
        /\ cm' = [cm EXCEPT !.now = @ + d]
        /\ hist' = [hist EXCEPT !.delayed = TRUE]
        /\ UNCHANGED <<storeVars, crawlVarsButHist>>

\* a new CiteManager, no call made
RateInit ==
    /\ papers = <<>>
    /\ citations = <<>>
    /\ lastCall = NoCall
    /\ cm = NewCiteManager
    /\ pc = "idle"
    /\ priority_queue = <<>>
    /\ processed_paper_ids = {}
    /\ paper_references = [p \in Papers |-> 0]
    /\ pending_papers = <<>>
    /\ pending_citations = <<>>
    /\ stats = InitStats
    /\ paperObj = [p \in Papers |-> NewPaperObj]
    /\ state_file = NoFile
    /\ hist = [calls |-> 0, delayed |-> FALSE]

RateNext ==
    \/ Get
    \/ CallerDelay

SpecRate == RateInit /\ [][RateNext]_vars

-----------------------------------------------------------------------------
(* The client under a steady load: one call after the other, every round *)
(* trip of the same length                                                *)

MaxWindowCalls == 550    \* calls made in a row

\* the start times (tenths of a second) of the requests issued in the
\* rate_window seconds that end at time t
InWindow(starts, t) == SelectSeq(starts, LAMBDA x : x > t - rate_window * 10)

\* a new CiteManager; the latency of the server is any of Latencies
WindowInit ==
    /\ papers = <<>>
    /\ citations = <<>>
    /\ lastCall = NoCall
    /\ cm = NewCiteManager
    /\ pc = "idle"
    /\ priority_queue = <<>>
    /\ processed_paper_ids = {}
    /\ paper_references = [p \in Papers |-> 0]
    /\ pending_papers = <<>>
    /\ pending_citations = <<>>
    /\ stats = InitStats
    /\ paperObj = [p \in Papers |-> NewPaperObj]
    /\ state_file = NoFile
    /\ \E dt \in Latencies : hist = [latency |-> dt, ncalls |-> 0, starts |-> <<>>]

\* a call through the client, made as soon as the previous one returned
SteadyGet ==
    /\ hist.ncalls < MaxWindowCalls
    /\ cm' = _get(cm, hist.latency, "response")
    /\ hist' = [hist EXCEPT !.ncalls = @ + 1,
                            !.starts = InWindow(Append(@, cm.now), cm.now)]
    /\ UNCHANGED <<storeVars, crawlVarsButHist>>

WindowNext == SteadyGet

SpecWindow == WindowInit /\ [][WindowNext]_vars

\* C15: save_state followed by load_state in a new Crawler restores the same
\* set of Frontier entries, the same processed set, the same reference
\* counters and the same stats counters.
C15_SaveLoadRoundTrip ==
    pc = "loaded" =>
        /\ ListToSet(priority_queue) = ListToSet(hist.saved.priority_queue)
        /\ Len(priority_queue) = Len(hist.saved.priority_queue)
        /\ processed_paper_ids = hist.saved.processed_paper_ids
        /\ paper_references = hist.saved.paper_references
        /\ stats = hist.saved.stats

\* a Crawler was constructed from the file of one that had processed papers,
\* a Frontier of two entries, reference counts and stats counters
C15_Witness ==
    /\ pc = "loaded"
    /\ Len(hist.saved.priority_queue) = 2
    /\ hist.saved.processed_paper_ids # {}
    /\ \E p \in Papers : hist.saved.paper_references[p] > 0
    /\ hist.saved.stats.papers_processed > 0

\* C16 (as claimed): a Crawler constructed on a state file that is corrupt or
\* malformed in any way is constructed, and its Frontier, processed set,
\* reference counters, stats and limits have their initial values.
C16_CorruptFileGivesInitialState ==
    (pc = "idle" /\ IsCorrupt(state_file)) =>
        /\ priority_queue = <<>>
        /\ processed_paper_ids = {}
        /\ paper_references = [p \in Papers |-> 0]
        /\ stats = InitStats
        /\ hist.limits = InitLimits

\* C17 (as claimed): on an empty Store seeded with paper 1 alone, the first
\* crawl step, whose lookups return the relations (1, 2) and (3, 1), leaves
\* three papers and two relations in the Store, the row of paper 1 done, and
\* exactly the papers 2 and 3 in the Frontier, at depth 1.
C17_OneStepScenario ==
    (/\ hist.last.kind = "crawl"
     /\ hist.last.id = 1
     /\ hist.last.o1 = "ok" /\ hist.last.o2 = "ok" /\ hist.last.ox = "ok"
     /\ hist.seedCalls = 1
     /\ hist.restarts = 0
     /\ hist.fetches = [p \in Papers |-> IF p = 1 THEN 1 ELSE 0])
    => /\ Len(papers) = 3
       /\ Len(citations) = 2
       /\ RowsOf(papers, 1) # {}
       /\ \A i \in RowsOf(papers, 1) : papers[i].done
       /\ Len(priority_queue) = 2
       /\ QueueIds(priority_queue) = {2, 3}
       /\ \A i \in 1..Len(priority_queue) :
              priority_queue[i].priority =
                  calculate_priority(paper_references, paperObj,
                                     priority_queue[i].paper_id, 1)

\* C18 (as claimed): two consecutive pops of the Frontier, with no push in
\* between, do not yield the same paper id when that paper is not processed.
C18_NoRepeatedPop ==
    [][(/\ hist.last.kind = "crawl"
        /\ hist.last.pushed = 0
        /\ hist'.last.kind = "crawl"
        /\ hist'.fetches # hist.fetches)
       => hist'.last.id # hist.last.id]_vars

\* the typed identifiers a Paper object carries, whatever their form
IdsOf(inst) == {Groups0(inst[t]) : t \in DOMAIN inst}

\* C19 (as claimed): two strings that denote the same typed identifier resolve
\* to the same Paper: no typed identifier is carried by two Paper objects, and
\* every identifier a Paper carries resolves to that Paper.
C19_OneEntityPerIdentifier ==
    LET objs == paperObj.instances IN
    /\ \A i, j \in 1..Len(objs) : i # j => IdsOf(objs[i]) \cap IdsOf(objs[j]) = {}
    /\ \A i \in 1..Len(objs) : \A x \in IdsOf(objs[i]) :
           /\ Resolve(paperObj.registry, x) = i
           /\ Resolve(paperObj.registry, [x EXCEPT !.prefixed = TRUE]) = i

\* C20 (as claimed): after a call of the constructor, the Paper returned is a
\* registered one when an identifier of the call matched one, and every valid
\* identifier of the call resolves to the Paper returned.
C20_ResolveMerges ==
    hist.called =>
        /\ hist.matched # {} => (~hist.created /\ hist.result \in hist.matched)
        /\ hist.matched = {} => hist.created
        /\ \A x \in hist.valid : Resolve(paperObj.registry, x) = hist.result

\* C33: when the identifiers of a call match two different registered Papers,
\* the Paper of the first identifier examined (keyword arguments, then the
\* positional ones) is returned, no Paper is created, and the Papers and the
\* identifier-to-Paper mappings are what they were before the call.
C33_ConflictKeepsFirstMatch ==
    [][Cardinality(hist'.matched) >= 2 =>
         /\ ~hist'.created
         /\ hist'.result = hist'.first
         /\ paperObj'.instances = paperObj.instances
         /\ paperObj'.registry = paperObj.registry]_vars

\* C33 witness: a call whose identifiers matched two Papers returned the one
\* of a later-created Paper, named first in the call.
C33_Witness ==
    /\ hist.called
    /\ Cardinality(hist.matched) = 2
    /\ ~hist.created
    /\ hist.result = 2
    /\ Len(paperObj.instances) = 2

-----------------------------------------------------------------------------
(* Claims about the priority order and the client *)

\* C26 (as claimed): a KeyboardInterrupt takes effect at a loop-iteration
\* boundary only: the step that moves crawl_network to Draining because of the
\* interrupt pops nothing and changes nothing of the Frontier, the Store, the
\* counters or the processed set (the step in flight had run to its end).
C26_InterruptAtLoopBoundary ==
    [][(pc = "running" /\ pc' = "draining" /\ hist'.exit = "interrupt")
       => UNCHANGED <<priority_queue, papers, citations, stats, paperObj,
                      processed_paper_ids, pending_papers, pending_citations>>]_vars

\* C27 (as claimed): in the Running loop a checkpoint is written only by an
\* iteration that advanced the processed count to a multiple of
\* state_save_frequency, and by no iteration that left the count unchanged.
C27_CheckpointOnlyOnAdvance ==
    [][(pc = "running" /\ pc' = "running" /\ state_file' # state_file)
       => /\ stats'.papers_processed = stats.papers_processed + 1
          /\ stats'.papers_processed % state_save_frequency = 0]_vars

\* C28: papers_processed never exceeds max_papers, and no iteration of the
\* loop pops an entry once papers_processed has reached max_papers; a push is
\* never refused because of the size of the Frontier (a seed that is not
\* processed always makes the Frontier one entry longer).
C28_CapEnforcedByLoop ==
    [][/\ stats'.papers_processed <= max_papers
       /\ (pc = "running" /\ Len(priority_queue') < Len(priority_queue))
             => stats.papers_processed < max_papers
       /\ (hist'.last.kind = "seed" /\ hist'.seedCalls # hist.seedCalls)
             => Len(priority_queue') = Len(priority_queue) + Len(hist'.last.seeds)]_vars

\* C28 witness: the run has stopped because papers_processed reached
\* max_papers, with more entries pushed than max_papers and the rest of them
\* still in the Frontier
C28_Witness ==
    /\ pc = "stopped"
    /\ hist.exit = "condition"
    /\ stats.papers_processed = max_papers
    /\ hist.seedCalls > max_papers
    /\ priority_queue # <<>>

\* C29 (as claimed): seeds are pushed at depth 0 with the maximum priority: no
\* entry pushed by discovery (at a depth of 1 or more) is popped while an
\* entry of a seed (depth 0) that is not processed is in the Frontier.
C29_SeedsBeforeDiscovered ==
    [][(hist'.last.kind \in {"crawl", "skip"} /\ hist'.last.depth > 0)
       => \A i \in 1..Len(priority_queue) :
             \/ priority_queue[i].depth > 0
             \/ priority_queue[i].paper_id \in processed_paper_ids]_vars

\* the entries of the Frontier that carry the id
EntriesOf(q, p) == Cardinality({i \in 1..Len(q) : q[i].paper_id = p})

\* C30: no step adds a Frontier entry for an id that is in the processed set,
\* neither add_seed_papers nor a crawl step; and the iteration that pops an id
\* of the processed set removes that entry and does nothing else: no fetch, no
\* change of the counters, of the Store or of the processed set.
C30_ProcessedNeverPushedAndSkipped ==
    [][/\ \A p \in processed_paper_ids :
             EntriesOf(priority_queue', p) <= EntriesOf(priority_queue, p)
       /\ (/\ pc = "running"
           /\ Len(priority_queue') < Len(priority_queue)
           /\ Head(priority_queue).paper_id \in processed_paper_ids)
          => /\ priority_queue' = Tail(priority_queue)
             /\ hist'.fetches = hist.fetches
             /\ UNCHANGED <<stats, papers, citations, paperObj,
                            processed_paper_ids, state_file>>]_vars

\* C30 witness: after a call of add_seed_papers, a processed id was popped
\* from the restored Frontier and skipped with nothing fetched; it has no
\* entry in the Frontier any more, and another entry waits
C30_Witness ==
    /\ hist.last.kind = "skip"
    /\ hist.last.id \in processed_paper_ids
    /\ hist.seedCalls = 1
    /\ hist.fetches = [p \in Papers |-> 0]
    /\ EntriesOf(priority_queue, hist.last.id) = 0
    /\ priority_queue # <<>>

\* C34 (as claimed): once the run has stopped, every relation that a crawl
\* step discovered (both endpoints are identified by a DOI) is a row of the
\* citations table.
C34_DiscoveredRelationsStored ==
    pc = "stopped" =>
        \A c \in Discovered : \E i \in 1..Len(citations) : citations[i].oci = c.oci

\* C35 (as claimed): a crash immediately after a periodic checkpoint, followed
\* by a resume from it, loses no discovered relation: when the resumed run has
\* stopped, every relation that a crawl step had discovered before the crash
\* is a row of the citations table.
C35_CrashAfterCheckpointLosesNothing ==
    (pc = "stopped" /\ hist.restarts > 0 /\ hist.crashed.afterCheckpoint) =>
        \A c \in hist.crashed.discovered :
            \E i \in 1..Len(citations) : citations[i].oci = c.oci

\* C36: a run of crawl_network with no time limit always leaves its loop and
\* reaches the final flush and the final checkpoint, also when the crawl step
\* of an entity fails on every attempt.
C36_LoopTerminates ==
    (pc = "running") ~> (pc = "stopped")

\* C36 witness: the run has stopped on its loop condition after an entity was
\* fetched twice and its step failed both times.
C36_Witness ==
    /\ pc = "stopped"
    /\ hist.exit = "condition"
    /\ \E p \in Papers : hist.fetches[p] = 2 /\ p \notin processed_paper_ids

\* C37 (as claimed): a crawl step that fails (crawl_paper returns False)
\* leaves the Frontier as the pop left it, and the reference counters, both
\* pending buffers, stats.papers_processed and the done flags of the papers
\* table as they were before the step.
C37_FailedStepChangesNothing ==
    [][(/\ pc = "running"
        /\ hist'.last.kind = "crawl"
        /\ hist'.fetches # hist.fetches
        /\ ~hist'.last.success)
       => /\ priority_queue' = heappop(priority_queue).rest
          /\ paper_references' = paper_references
          /\ pending_papers' = pending_papers
          /\ pending_citations' = pending_citations
          /\ stats'.papers_processed = stats.papers_processed
          /\ Len(papers') = Len(papers)
          /\ \A i \in 1..Len(papers) : papers'[i].done = papers[i].done]_vars

\* what the Crawler of this session loaded from the state file
LoadedProcessed ==
    IF hist.resumed.exists THEN ListToSet(hist.resumed.processed_paper_ids) ELSE {}

LoadedPapersProcessed ==
    IF hist.resumed.exists THEN hist.resumed.stats.papers_processed ELSE 0

\* C38 (as claimed): stats.papers_processed is the number of ids added to the
\* processed set since the Crawler was created plus the papers_processed
\* value loaded from the checkpoint.
C38_CounterCountsProcessedSet ==
    stats.papers_processed
        = Cardinality(processed_paper_ids \ LoadedProcessed) + LoadedPapersProcessed

\* C39: a Crawler resumed from a state file takes over its papers_processed
\* count p, and the count never passes max_papers in the resumed run (nor p,
\* when p was already above): the run adds at most max_papers - p ids to the
\* processed set, and when p >= max_papers it crawls nothing.
C39_CapIsCumulative ==
    LET p == LoadedPapersProcessed
        further == IF p < max_papers THEN max_papers - p ELSE 0
    IN /\ stats.papers_processed >= p
       /\ stats.papers_processed <= p + further
       /\ Cardinality(processed_paper_ids \ LoadedProcessed) <= further
       /\ p >= max_papers => hist.fetches = [q \in Papers |-> 0]

\* C39 witness: a run resumed with a count one below max_papers has counted
\* one paper and stopped on its loop condition with the Frontier not empty.
C39_Witness ==
    /\ pc = "stopped"
    /\ hist.exit = "condition"
    /\ LoadedPapersProcessed = max_papers - 1
    /\ stats.papers_processed = max_papers
    /\ priority_queue # <<>>

\* the score an entry was pushed with
Score(p) ==
    hist.pushed[p].ref + hist.pushed[p].metric
        - hist.pushed[p].depth
          * (IF hist.variant = "paper" THEN DepthPenalty ELSE WikiDepthPenalty)

PrevDt == cm.calls[1].t1 - cm.calls[1].t0

C11_RateWithinMax ==
    Len(hist.starts) * 10 <= rate_max * rate_window

\* C32 (as claimed): every call made through the client is recorded in the
\* request log: after k calls that returned a response, all within
\* rate_window, request_times holds k timestamps and nrequests = k.
C32_EveryCallRecorded ==
    (/\ hist.calls = Len(cm.calls)
     /\ \A i \in 1..Len(cm.calls) : ~cm.calls[i].raised
     /\ cm.now < rate_window * 10)
    => /\ Len(cm.request_times) = hist.calls
       /\ cm.nrequests = hist.calls

-----------------------------------------------------------------------------
(* Claims about the Store *)

\* C12 (as claimed): a batch call in which a record fails part-way with an
\* error other than a duplicate commits none of its records: the Store equals
\* its state before the call.
C12_FailedBatchLeavesStoreUnchanged ==
    hist.failed => papers = hist.papers /\ citations = hist.citations

\* the rows of s are rows of t, at the same row ids
RowsKept(s, t) == Len(s) <= Len(t) /\ \A i \in 1..Len(s) : t[i] = s[i]

\* C14: after the process has ended at any point, every row committed by an
\* earlier completed Store call is still in the database; only rows of the
\* batch in flight are missing.
C14_CommittedRowsSurviveCrash ==
    pc = "crashed" =>
        /\ RowsKept(hist.papers, papers)
        /\ RowsKept(hist.citations, citations)

\* the process ended in the middle of a batch write, after an earlier call
\* had committed rows, and rows of the batch in flight were lost
C14_Witness ==
    /\ pc = "crashed"
    /\ hist.papers # <<>>
    /\ hist.lost > 0
    /\ papers = hist.papers


Ocis(crows) == {crows[i].oci : i \in 1..Len(crows)}

IsPrefix(s, t) == Len(s) <= Len(t) /\ \A i \in 1..Len(s) : t[i] = s[i]

\* C1 (as claimed): the papers table holds one row per identifier: no two
\* rows carry the same value in the same identifier column, whichever the
\* column (doi, pmid, openalex, omid, isbn, arxiv), so re-upserting a record
\* whose identifiers are already stored adds no row.
C1_OneRowPerIdentifier ==
    \A i \in 1..Len(papers) : \A j \in 1..Len(papers) :
        i # j => \A t \in IdTypes :
            papers[i][t] # NULL => papers[i][t] # papers[j][t]

\* C9: a relation batch with an OCI that is already stored, or twice in the
\* batch, leaves the stored relations as they were (the table only grows at
\* its end), adds one row per OCI that was not stored and none for a
\* duplicate, and still inserts every other record of the batch.
C9_DuplicateRelationIsNoOp ==
    [][lastCall'.op = "insert_citations_batch" =>
        LET batch == lastCall'.arg
            fresh == Ocis(batch) \ Ocis(citations)
        IN /\ IsPrefix(citations, citations')
           /\ total_citations(citations') = total_citations(citations) + Cardinality(fresh)
           /\ Ocis(citations') = Ocis(citations) \cup Ocis(batch)
           /\ \A i \in 1..Len(citations') : \A j \in 1..Len(citations') :
                  citations'[i].oci = citations'[j].oci => i = j]_vars

\* C9 witness: the last batch held a record that was dropped as a duplicate
\* (its OCI is stored with other endpoints) and a record that was inserted.
C9_Witness ==
    /\ lastCall.op = "insert_citations_batch"
    /\ \E k \in 1..Len(lastCall.arg) : \E m \in 1..Len(lastCall.arg) :
          /\ \A i \in 1..Len(citations) : citations[i] # lastCall.arg[k]
          /\ lastCall.arg[k].oci \in Ocis(citations)
          /\ Len(citations) >= 2
          /\ citations[Len(citations)] = lastCall.arg[m]

\* a row of the table matches an identifier of the record, of any type
MatchesAny(rows, rec) ==
    \E i \in 1..Len(rows) : \E t \in IdTypes :
        rec[t] # NULL /\ rows[i][t] = rec[t]

\* the rows that carry the first identifier of the record, in the order of
\* IdOrder, that some row carries
FirstMatches(rows, rec) ==
    LET ks == {k \in 1..Len(IdOrder) :
                  rec[IdOrder[k]] # NULL
                  /\ \E i \in 1..Len(rows) : rows[i][IdOrder[k]] = rec[IdOrder[k]]}
        k0 == CHOOSE k \in ks : \A j \in ks : k <= j
    IN {i \in 1..Len(rows) : rows[i][IdOrder[k0]] = rec[IdOrder[k0]]}

\* C21 (as claimed): insert_paper_batch inserts a record only when no row,
\* stored before the call or by an earlier record of the batch, matches any
\* identifier of the record, of any type; otherwise it inserts nothing for the
\* record and returns the id of a row that carries the first matching
\* identifier in the order doi, pmid, openalex, omid, isbn, arxiv.
C21_InsertOnlyWhenUnmatched ==
    [][lastCall'.op = "insert_paper_batch" =>
        \A k \in 1..Len(lastCall'.arg) :
            LET rec == lastCall'.arg[k]
                before == insert_paper_batch(papers, SubSeq(lastCall'.arg, 1, k - 1))
                after == insert_paper_batch(papers, SubSeq(lastCall'.arg, 1, k))
            IN IF MatchesAny(before.rows, rec)
               THEN /\ after.rows = before.rows
                    /\ after.results[k] \in FirstMatches(before.rows, rec)
               ELSE /\ after.rows = Append(before.rows, NewRow(rec))
                    /\ after.results[k] = Len(after.rows)]_vars

\* C22: update_paper_citations with only some of nciting, ncited and strength
\* supplied sets exactly the supplied fields of the row of that id to the
\* supplied values and leaves its unspecified fields, its other columns and
\* every other row as they were.
C22_PartialUpdateKeepsTheRest ==
    lastCall.op = "update_paper_citations" =>
        LET a == lastCall.arg IN
        /\ Len(papers) = Len(hist.papers)
        /\ \A i \in 1..Len(papers) :
             IF i # a.paper_id THEN papers[i] = hist.papers[i]
             ELSE /\ \A f \in {"nciting", "ncited", "strength"} :
                        papers[i][f] = IF a[f] = None THEN hist.papers[i][f] ELSE a[f]
                  /\ \A f \in DOMAIN papers[i] \ {"nciting", "ncited", "strength"} :
                        papers[i][f] = hist.papers[i][f]

\* C22 witness: a call that supplied ncited alone has set it to a new value on
\* the first of two rows, whose nciting and strength are not the defaults and
\* are as before, with the row marked done
C22_Witness ==
    /\ lastCall.op = "update_paper_citations"
    /\ lastCall.arg = [paper_id |-> 1, nciting |-> None, ncited |-> 1, strength |-> None]
    /\ Len(papers) = 2
    /\ hist.papers[1].ncited = 0
    /\ papers[1].ncited = 1
    /\ papers[1].nciting = 1
    /\ papers[1].strength = 1
    /\ papers[1].done

\* C24 (as claimed): no stored relation has a source or a target id that is
\* not the id of a row of the papers table: insert_citations_batch skips such
\* a record and inserts the others.
C24_NoDanglingRelation ==
    \A i \in 1..Len(citations) :
        /\ citations[i].citing_paper_id \in 1..Len(papers)
        /\ citations[i].cited_paper_id \in 1..Len(papers)

\* C25 (as claimed): get_top_papers(metric, limit), for a metric it knows and
\* a limit that is not negative, returns at most limit rows, ordered by the
\* metric descending, and rows of equal metric in insertion order (by id).
C25_TopOrderedTiesByInsertion ==
    (/\ lastCall.op = "get_top_papers"
     /\ lastCall.arg.metric \in valid_metrics
     /\ lastCall.arg.limit >= 0)
    => LET r == lastCall.result
           m == lastCall.arg.metric
       IN /\ Len(r) <= lastCall.arg.limit
          /\ \A i \in 1..Len(r) : \A j \in 1..Len(r) :
                i < j => /\ papers[r[i]][m] >= papers[r[j]][m]
                         /\ papers[r[i]][m] = papers[r[j]][m] => r[i] < r[j]

=============================================================================
